---------------------------- MODULE Spec2Model ----------------------------
(***************************************************************************)
(* Verification model of postgres-seren-replicator (seren-neon-migrator).  *)
(*                                                                         *)
(* Three state machines share this module:                                 *)
(*   SpecUrl   - the connection-URL functions of src/utils.rs applied to   *)
(*               URLs drawn from a bounded grammar (text is modelled as    *)
(*               sequences of one-character strings);                      *)
(*   SpecTools - one call of a dump/restore driver operation and the       *)
(*               life of its credential file (PgPassFile);                 *)
(*   Spec      - runs of commands::init against one (source,target) pair,  *)
(*               with crashes and re-runs.                                 *)
(***************************************************************************)
EXTENDS Integers, Sequences, FiniteSets, TLC

VARIABLES
    \* ---- SpecUrl
    urlA,        \* components of the first URL handed to the URL functions
    urlB,        \* components of the second URL
    urlOut,      \* what the last URL function returned
    \* ---- SpecTools
    tcall,       \* the running dump/restore call: op, url components, pc
    pgfile,      \* the credential file at the path PgPassFile::new picked
    argvLog,     \* argv of every external tool spawned
    tresult,     \* what the dump/restore call returned
    \* ---- Spec (commands::init)
    cfg,               \* the arguments of the running init call
    pc,                \* where the init call stands
    idx,               \* index of the database the loop is at
    checkpoint_state,  \* init's in-memory InitCheckpoint
    ckptFile,          \* the checkpoint file of the (source,target) pair
    target,            \* the databases of the target server
    targetGlobals,     \* whether global objects were restored on the target
    tempDir,           \* whether the call's managed temp directory exists
    runs,              \* how many init calls were started
    result,            \* what the init call returned
    ghost,             \* history of the running call
    prev,              \* how the previous call ended
    installed,         \* the client tools found on PATH
    \* ---- SpecSql, SpecCmd, SpecRetry, SpecWait, SpecLag
    sql,         \* a name and the SQL statement built from it
    cmd,         \* a running validate, sync, status or verify command
    retry,       \* a running retry_with_backoff call
    wait,        \* a running wait_for_sync call
    lag,         \* a call of is_replication_caught_up
    \* ---- SpecTemp
    temp,        \* the file system as the managed temp storage sees it
    \* ---- SpecFilter, SpecPublication, SpecNames
    fncall       \* a call of one of the functions checked on their own

urlVars   == <<urlA, urlB, urlOut>>
toolVars  == <<tcall, pgfile, argvLog, tresult>>
initVars  == <<cfg, pc, idx, checkpoint_state, ckptFile, target, targetGlobals,
               tempDir, runs, result, ghost, prev, installed>>
auxVars   == <<sql, cmd, retry, wait, lag, temp, fncall>>

-----------------------------------------------------------------------------
(* Text.  A string is a sequence of one-character strings; a fixed piece   *)
(* of message text is one multi-character element.  Option<T> is a         *)
(* sequence of length 0 (None) or 1 (Some).                                *)

None == <<>>

Some(v) == <<v>>

IsSome(o) == Len(o) = 1

Unwrap(o) == o[1]

\* str::find(char): index of the first occurrence, 0 when absent
IndexOf(s, c) ==
    IF \E i \in 1..Len(s) : s[i] = c
    THEN CHOOSE i \in 1..Len(s) : s[i] = c /\ \A j \in 1..(i - 1) : s[j] # c
    ELSE 0

\* str::rfind(char): index of the last occurrence, 0 when absent
LastIndexOf(s, c) ==
    IF \E i \in 1..Len(s) : s[i] = c
    THEN CHOOSE i \in 1..Len(s) : s[i] = c /\ \A j \in (i + 1)..Len(s) : s[j] # c
    ELSE 0

\* str::split_once(char)
split_once(s, c) ==
    LET i == IndexOf(s, c)
    IN  IF i = 0 THEN None
        ELSE Some(<<SubSeq(s, 1, i - 1), SubSeq(s, i + 1, Len(s))>>)

\* str::rsplit_once(char)
rsplit_once(s, c) ==
    LET i == LastIndexOf(s, c)
    IN  IF i = 0 THEN None
        ELSE Some(<<SubSeq(s, 1, i - 1), SubSeq(s, i + 1, Len(s))>>)

\* str::starts_with(&str)
starts_with(s, p) == Len(s) >= Len(p) /\ SubSeq(s, 1, Len(p)) = p

\* str::trim_start_matches(&str): strips the prefix as often as it repeats
RECURSIVE trim_start_matches(_, _)
trim_start_matches(s, p) ==
    IF Len(p) > 0 /\ starts_with(s, p)
    THEN trim_start_matches(SubSeq(s, Len(p) + 1, Len(s)), p)
    ELSE s

\* str::split(char): the pieces between the separators
RECURSIVE split(_, _)
split(s, c) ==
    LET i == IndexOf(s, c)
    IN  IF i = 0 THEN <<s>>
        ELSE <<SubSeq(s, 1, i - 1)>> \o split(SubSeq(s, i + 1, Len(s)), c)

UpperLetters == <<"A","B","C","D","E","F","G","H","I","J","K","L","M",
                  "N","O","P","Q","R","S","T","U","V","W","X","Y","Z">>

LowerLetters == <<"a","b","c","d","e","f","g","h","i","j","k","l","m",
                  "n","o","p","q","r","s","t","u","v","w","x","y","z">>

\* char::to_lowercase on the ASCII range
to_lowercase_char(c) ==
    IF \E i \in 1..26 : UpperLetters[i] = c
    THEN LowerLetters[CHOOSE i \in 1..26 : UpperLetters[i] = c]
    ELSE c

\* str::to_lowercase
to_lowercase(s) == [i \in 1..Len(s) |-> to_lowercase_char(s[i])]

Digits == <<"0","1","2","3","4","5","6","7","8","9">>

IsDigit(c) == \E i \in 1..10 : Digits[i] = c

DigitVal(c) == (CHOOSE i \in 1..10 : Digits[i] = c) - 1

RECURSIVE DigitsValue(_)
DigitsValue(s) ==
    IF Len(s) = 0 THEN 0
    ELSE 10 * DigitsValue(SubSeq(s, 1, Len(s) - 1)) + DigitVal(s[Len(s)])

U16Max == 65535

\* str::parse::<u16>(): an optional '+', then one or more digits, at most 65535
parse_u16(p) ==
    LET body == IF Len(p) > 0 /\ p[1] = "+" THEN Tail(p) ELSE p
    IN  IF Len(body) = 0 \/ \E i \in 1..Len(body) : ~IsDigit(body[i])
        THEN None
        ELSE IF DigitsValue(body) > U16Max THEN None
        ELSE Some(DigitsValue(body))

\* u16::to_string()
RECURSIVE to_string(_)
to_string(n) ==
    IF n < 10 THEN <<Digits[n + 1]>>
    ELSE to_string(n \div 10) \o <<Digits[(n % 10) + 1]>>


-----------------------------------------------------------------------------
(* Connection URL model: src/utils.rs                                      *)

SchemePostgres == <<"p","o","s","t","g","r","e","s",":","/","/">>

SchemePostgresql == <<"p","o","s","t","g","r","e","s","q","l",":","/","/">>

DefaultPort == 5432

Ok(v) == [ok |-> TRUE, val |-> v]

Err(m) == [ok |-> FALSE, err |-> m]

\* the HashMap built from "k=v&k=v": a later pair replaces an earlier one
\* with the same key; a piece without '=' is dropped
parse_query_params(query_string) ==
    IF ~IsSome(query_string) THEN {}
    ELSE LET pieces == split(Unwrap(query_string), "&")
             kv(i)  == split_once(pieces[i], "=")
             keyed  == {i \in 1..Len(pieces) : IsSome(kv(i))}
             last   == {i \in keyed :
                          \A j \in keyed : Unwrap(kv(j))[1] = Unwrap(kv(i))[1] => j <= i}
         IN  {Unwrap(kv(i)) : i \in last}

\* the tail of parse_postgres_url: host[:port]
parse_host_port(host_and_port) ==
    LET hp == rsplit_once(host_and_port, ":")
    IN  IF IsSome(hp)
        THEN LET p == parse_u16(Unwrap(hp)[2])
             IN  IF IsSome(p)
                 THEN Ok([host |-> Unwrap(hp)[1], port |-> Unwrap(p)])
                 ELSE Err(<<"Invalid port number: ">> \o Unwrap(hp)[2])
        ELSE Ok([host |-> host_and_port, port |-> DefaultPort])

\* the middle of parse_postgres_url: [user[:password]@]host-and-port
parse_auth(auth_and_host) ==
    LET ah == rsplit_once(auth_and_host, "@")
    IN  IF IsSome(ah)
        THEN LET auth == Unwrap(ah)[1]
                 up   == split_once(auth, ":")
             IN  IF IsSome(up)
                 THEN [user |-> Some(Unwrap(up)[1]), password |-> Some(Unwrap(up)[2]),
                       host_and_port |-> Unwrap(ah)[2]]
                 ELSE [user |-> Some(auth), password |-> None,
                       host_and_port |-> Unwrap(ah)[2]]
        ELSE [user |-> None, password |-> None, host_and_port |-> auth_and_host]

parse_host_case_sensitive(host) == host

normalize_host(host) == to_lowercase(host)

parse_postgres_url(url) ==
    LET url_without_scheme ==
            trim_start_matches(trim_start_matches(url, SchemePostgres), SchemePostgresql)
        bq           == split_once(url_without_scheme, "?")
        base         == IF IsSome(bq) THEN Unwrap(bq)[1] ELSE url_without_scheme
        query_string == IF IsSome(bq) THEN Some(Unwrap(bq)[2]) ELSE None
        ad           == rsplit_once(base, "/")
    IN  IF ~IsSome(ad) THEN Err(<<"Missing database name in URL">>)
        ELSE LET auth == parse_auth(Unwrap(ad)[1])
                 hp   == parse_host_port(auth.host_and_port)
             IN  IF ~hp.ok THEN hp
                 ELSE Ok([host         |-> normalize_host(hp.val.host),
                          port         |-> hp.val.port,
                          database     |-> Unwrap(ad)[2],
                          user         |-> auth.user,
                          password     |-> auth.password,
                          query_params |-> parse_query_params(query_string)])

\* "(no user)" when the URL names none
user_or(user, dflt) == IF IsSome(user) THEN Unwrap(user) ELSE <<dflt>>

same_database_message(s, t) ==
    <<"Source and target URLs point to the same database! Source: ">>
        \o user_or(s.user, "(no user)") \o <<"@">> \o s.host \o <<":">>
        \o to_string(s.port) \o <<"/">> \o s.database
        \o <<" Target: ">>
        \o user_or(t.user, "(no user)") \o <<"@">> \o t.host \o <<":">>
        \o to_string(t.port) \o <<"/">> \o t.database

same_endpoint(s, t) ==
    /\ s.host = t.host
    /\ s.port = t.port
    /\ s.database = t.database
    /\ s.user = t.user

\* kind: "parse" (a URL did not parse) or "same" (the same-database error)
validate_source_target_different(source_url, target_url) ==
    LET source_parts == parse_postgres_url(source_url)
        target_parts == parse_postgres_url(target_url)
    IN  IF ~source_parts.ok
        THEN [ok |-> FALSE, kind |-> "parse",
              err |-> <<"Failed to parse source URL: ">> \o source_url
                          \o <<": ">> \o source_parts.err]
        ELSE IF ~target_parts.ok
        THEN [ok |-> FALSE, kind |-> "parse",
              err |-> <<"Failed to parse target URL: ">> \o target_url
                          \o <<": ">> \o target_parts.err]
        ELSE IF same_endpoint(source_parts.val, target_parts.val)
        THEN [ok |-> FALSE, kind |-> "same",
              err |-> same_database_message(source_parts.val, target_parts.val)]
        ELSE [ok |-> TRUE, kind |-> "ok", err |-> <<>>]

strip_password_keeping_it(url) ==
    LET parts == parse_postgres_url(url)
    IN  IF ~parts.ok THEN parts
        ELSE Ok(url)

strip_password_from_url(url) ==
    LET parts == parse_postgres_url(url)
    IN  IF ~parts.ok THEN parts
        ELSE IF ~starts_with(url, SchemePostgresql) /\ ~starts_with(url, SchemePostgres)
        THEN Err(<<"Invalid PostgreSQL URL scheme">>)
        ELSE LET scheme == IF starts_with(url, SchemePostgresql) THEN SchemePostgresql
                                                                   ELSE SchemePostgres
                 q      == IndexOf(url, "?")
             IN  Ok(scheme
                    \o (IF IsSome(parts.val.user) THEN Unwrap(parts.val.user) \o <<"@">>
                                                  ELSE <<>>)
                    \o parts.val.host \o <<":">> \o to_string(parts.val.port)
                    \o <<"/">> \o parts.val.database
                    \o (IF q > 0 THEN SubSeq(url, q, Len(url)) ELSE <<>>))

-----------------------------------------------------------------------------
(* URLs handed to the program.  A URL is written from its components       *)
(*   scheme [user [":" password] "@"] host [":" port] "/" database         *)
(*          ["?" query]                                                    *)
(* and each component carries what it denotes (the lower-cased host, the   *)
(* port number), so that the program's parse is compared with the URL's    *)
(* meaning and not with itself.                                            *)

MaxPwLen == 2

\* 'x' occurs in passwords only; '@', ':' and '/' are the delimiters a
\* password may contain
PwAlphabet == {"x", "@", ":", "/"}

RECURSIVE StringsUpTo(_, _)
StringsUpTo(alphabet, n) ==
    IF n = 0 THEN {<<>>}
    ELSE LET shorter == StringsUpTo(alphabet, n - 1)
         IN  shorter \cup {Append(w, c) : w \in shorter, c \in alphabet}

Passwords == StringsUpTo(PwAlphabet, MaxPwLen) \ {<<>>}

Hosts == {[text |-> <<"h">>, lower |-> <<"h">>],
          [text |-> <<"H">>, lower |-> <<"h">>],
          [text |-> <<"g">>, lower |-> <<"g">>]}

\* valid: whether the text is a u16; number: the port the URL denotes
Ports == {[text |-> None,                         valid |-> TRUE,  number |-> 5432],
          [text |-> Some(<<"5","4","3","2">>),    valid |-> TRUE,  number |-> 5432],
          [text |-> Some(<<"5","4","3","3">>),    valid |-> TRUE,  number |-> 5433],
          [text |-> Some(<<"z">>),                valid |-> FALSE, number |-> 0]}

Databases == {<<"d">>, <<"D">>}

Queries == {None, Some(<<"sslmode","=","require">>)}

Schemes == {SchemePostgres, SchemePostgresql, <<>>}

Auths(users) ==
    {[user |-> None, password |-> None]}
        \cup {[user |-> Some(u), password |-> None] : u \in users}
        \cup {[user |-> Some(u), password |-> Some(p)] : u \in users, p \in Passwords}

UrlsOver(users) ==
    {[scheme |-> sc, auth |-> a, host |-> h, port |-> po, database |-> d, query |-> q] :
        sc \in Schemes, a \in Auths(users), h \in Hosts, po \in Ports,
        d \in Databases, q \in Queries}

UrlInputs == UrlsOver({<<"u">>})

Url(sc, user, password, h, po, d, q) ==
    [scheme |-> sc, auth |-> [user |-> user, password |-> password],
     host |-> [text |-> h, lower |-> h],
     port |-> IF IsSome(po) THEN [text |-> po, valid |-> parse_u16(Unwrap(po)) # None,
                                  number |-> IF parse_u16(Unwrap(po)) # None
                                             THEN Unwrap(parse_u16(Unwrap(po))) ELSE 0]
              ELSE [text |-> None, valid |-> TRUE, number |-> 5432],
     database |-> d, query |-> q]

\* the second URL of a comparison
UrlPeers ==
    {Url(SchemePostgresql, Some(<<"u">>), Some(<<"x">>), <<"h">>,
         Some(<<"5","4","3","2">>), <<"d">>, None),
     Url(SchemePostgres, Some(<<"u">>), None, <<"h">>, None, <<"d">>,
         Some(<<"sslmode","=","disable">>)),
     Url(SchemePostgresql, Some(<<"v">>), Some(<<"x">>), <<"h">>,
         Some(<<"5","4","3","2">>), <<"d">>, None),
     Url(SchemePostgresql, None, None, <<"h">>, Some(<<"5","4","3","3">>), <<"D">>, None),
     Url(SchemePostgresql, Some(<<"u">>), Some(<<"x">>), <<"g">>,
         Some(<<"5","4","3","2">>), <<"d">>, None),
     Url(SchemePostgresql, Some(<<"u">>), Some(<<"x">>), <<"h">>,
         Some(<<"z">>), <<"d">>, None)}

\* the text of a URL
Render(c) ==
    c.scheme
        \o (IF IsSome(c.auth.user)
            THEN Unwrap(c.auth.user)
                 \o (IF IsSome(c.auth.password) THEN <<":">> \o Unwrap(c.auth.password)
                                                ELSE <<>>)
                 \o <<"@">>
            ELSE <<>>)
        \o c.host.text
        \o (IF IsSome(c.port.text) THEN <<":">> \o Unwrap(c.port.text) ELSE <<>>)
        \o <<"/">> \o c.database
        \o (IF IsSome(c.query) THEN <<"?">> \o Unwrap(c.query) ELSE <<>>)

\* what the URL denotes
Identity(c) == <<c.host.lower, c.port.number, c.database, c.auth.user>>

Parseable(c) == c.port.valid

HasScheme(c) == c.scheme \in {SchemePostgres, SchemePostgresql}

Chars(s) == {s[i] : i \in 1..Len(s)}

NoUrlCall == [op |-> "none"]

UrlIdle ==
    /\ urlA = "-"
    /\ urlB = "-"
    /\ urlOut = NoUrlCall

ToolIdle ==
    /\ tcall = "-"
    /\ pgfile = "-"
    /\ argvLog = "-"
    /\ tresult = "-"

InitNotCalled ==
    /\ cfg = "-"
    /\ pc = "-"
    /\ idx = 0
    /\ checkpoint_state = "-"
    /\ ckptFile = "-"
    /\ target = "-"
    /\ targetGlobals = FALSE
    /\ tempDir = FALSE
    /\ runs = 0
    /\ result = "-"
    /\ ghost = "-"
    /\ prev = "-"

InitIdle ==
    /\ InitNotCalled
    /\ installed = "-"

SqlIdle == sql = "-"

CmdIdle == cmd = "-"

RetryIdle == retry = "-"

WaitIdle == wait = "-"

LagIdle == lag = "-"

TempIdle == temp = "-"

CallIdle == fncall = "-"

UrlInit ==
    /\ urlA \in UrlInputs
    /\ urlB \in UrlPeers
    /\ urlOut = NoUrlCall
    /\ ToolIdle
    /\ InitIdle
    /\ SqlIdle /\ CmdIdle /\ RetryIdle /\ WaitIdle /\ LagIdle /\ TempIdle /\ CallIdle

UrlValidate ==
    /\ urlOut.op = "none"
    /\ urlOut' = [op |-> "validate",
                  r  |-> validate_source_target_different(Render(urlA), Render(urlB))]
    /\ UNCHANGED <<urlA, urlB, toolVars, initVars, auxVars>>

UrlStrip ==
    /\ urlOut.op = "none"
    /\ urlOut' = [op |-> "strip", r |-> strip_password_from_url(Render(urlA))]
    /\ UNCHANGED <<urlA, urlB, toolVars, initVars, auxVars>>

UrlNext == UrlValidate \/ UrlStrip

vars == <<urlVars, toolVars, initVars, auxVars>>

SpecUrl == UrlInit /\ [][UrlNext]_vars

-----------------------------------------------------------------------------
(* Properties of the URL functions (SpecUrl)                               *)

\* the query string of a URL text, without its '?'
QueryText(u) ==
    IF IndexOf(u, "?") = 0 THEN None
    ELSE Some(SubSeq(u, IndexOf(u, "?") + 1, Len(u)))

\* r, the result of redacting the URL written from c, is a URL without any
\* password character that parses back to c's user, host, port, database
\* and query, with no password
RedactedFaithfully(c, r) ==
    /\ r.ok
    /\ "x" \notin Chars(r.val)
    /\ QueryText(r.val) = c.query
    /\ LET back == parse_postgres_url(r.val)
           orig == parse_postgres_url(Render(c))
       IN  /\ back.ok
           /\ back.val.user = c.auth.user
           /\ back.val.password = None
           /\ back.val.host = c.host.lower
           /\ back.val.port = c.port.number
           /\ back.val.database = c.database
           /\ back.val.query_params = parse_query_params(c.query)
           /\ orig.ok
           /\ back.val = [orig.val EXCEPT !.password = None]

C10_SameDatabaseIffSameIdentity ==
    urlOut.op = "validate" =>
        IF Parseable(urlA) /\ Parseable(urlB)
        THEN IF Identity(urlA) = Identity(urlB)
             THEN ~urlOut.r.ok /\ urlOut.r.kind = "same"
             ELSE urlOut.r.ok
        ELSE ~urlOut.r.ok /\ urlOut.r.kind = "parse"

C10_Witness ==
    /\ urlOut.op = "validate"
    /\ ~urlOut.r.ok
    /\ urlOut.r.kind = "same"
    /\ urlA.scheme # urlB.scheme
    /\ urlA.auth.password # urlB.auth.password
    /\ urlA.query # urlB.query
    /\ urlA.host.text # urlB.host.text
    /\ urlA.port.text # urlB.port.text

-----------------------------------------------------------------------------
(* Dump/restore driver and its credential file:                            *)
(* src/migration/dump.rs, src/migration/restore.rs, PgPassFile in          *)
(* src/utils.rs.  One call of one operation, step by step: each system     *)
(* call of PgPassFile::new is a step of its own, since another local       *)
(* process can look at the file between any two of them.                   *)

ToolOps == {"dump_globals", "dump_schema", "dump_data",
            "restore_globals", "restore_schema", "restore_data"}

\* the URLs handed to the driver: every authentication, port and query of
\* the grammar on one host and database
ToolUrls ==
    {c \in UrlInputs : c.scheme = SchemePostgresql /\ c.host.text = <<"h">>
                        /\ c.database = <<"d">>}

\* the path PgPassFile::new picks: temp_dir()/pgpass-{random:08x}
PgPassPath == <<"/tmp/pgpass-", "0", "0", "c", "0", "f", "f", "e", "e">>

OutputPath == <<"/tmp/postgres-seren-replicator-1-0/out">>

\* number of parallel jobs: available_parallelism() capped at 8, 4 when unknown
MaxJobs == 8

FallbackJobs == 4

num_cpus(available_parallelism) ==
    IF IsSome(available_parallelism)
    THEN IF Unwrap(available_parallelism) < MaxJobs THEN Unwrap(available_parallelism)
                                                     ELSE MaxJobs
    ELSE FallbackJobs

\* "--host h --port p --dbname d"
connection_args(parts) ==
    << <<"--host">>, parts.host, <<"--port">>, to_string(parts.port),
       <<"--dbname">>, parts.database >>

username_args(parts) ==
    IF IsSome(parts.user) THEN << <<"--username">>, Unwrap(parts.user) >> ELSE << >>

\* one flag per table of an Option<Vec<String>>
RECURSIVE table_args(_, _)
table_args(flag, tables) ==
    IF ~IsSome(tables) \/ Len(Unwrap(tables)) = 0 THEN << >>
    ELSE << <<flag>>, Head(Unwrap(tables)) >> \o table_args(flag, Some(Tail(Unwrap(tables))))

dump_globals_argv(parts) ==
    << <<"pg_dumpall">>, <<"--globals-only">>, <<"--no-role-passwords">> >>
        \o connection_args(parts) \o << <<"--file=">> \o OutputPath >>
        \o username_args(parts)

dump_schema_argv(parts, exclude_tables, include_tables) ==
    << <<"pg_dump">>, <<"--schema-only">>, <<"--no-owner">>, <<"--no-privileges">> >>
        \o table_args("--exclude-table", exclude_tables)
        \o table_args("--table", include_tables)
        \o connection_args(parts) \o << <<"--file=">> \o OutputPath >>
        \o username_args(parts)

dump_data_argv(parts, exclude_tables, include_tables, jobs) ==
    << <<"pg_dump">>, <<"--data-only">>, <<"--no-owner">>, <<"--format=directory">>,
       <<"--blobs">>, <<"--compress=9">>, <<"--jobs=">> \o to_string(jobs) >>
        \o table_args("--exclude-table-data", exclude_tables)
        \o table_args("--table", include_tables)
        \o connection_args(parts) \o << <<"--file=">> \o OutputPath >>
        \o username_args(parts)

psql_argv(parts) ==
    << <<"psql">> >> \o connection_args(parts)
        \o << <<"--file=">> \o OutputPath, <<"--quiet">> >>
        \o username_args(parts)

restore_data_argv(parts, jobs) ==
    << <<"pg_restore">>, <<"--data-only">>, <<"--no-owner">>,
       <<"--jobs=">> \o to_string(jobs) >>
        \o connection_args(parts)
        \o << <<"--format=directory">>, <<"--verbose">>, OutputPath >>
        \o username_args(parts)

tool_argv(call, parts) ==
    CASE call.op = "dump_globals"    -> dump_globals_argv(parts)
      [] call.op = "dump_schema"     ->
             dump_schema_argv(parts, call.exclude_tables, call.include_tables)
      [] call.op = "dump_data"       ->
             dump_data_argv(parts, call.exclude_tables, call.include_tables,
                            num_cpus(call.available_parallelism))
      [] call.op = "restore_globals" -> psql_argv(parts)
      [] call.op = "restore_schema"  -> psql_argv(parts)
      [] call.op = "restore_data"    ->
             restore_data_argv(parts, num_cpus(call.available_parallelism))

\* the endpoint a dump reads is the source, the one a restore writes the target
url_role(op) ==
    IF op \in {"dump_globals", "dump_schema", "dump_data"} THEN "source" ELSE "target"

parse_failure_message(op, url, cause) ==
    <<"Failed to parse ", url_role(op), " URL: ">> \o url \o <<": ">> \o cause

\* the line PgPassFile::new writes: host:port:database:user-or-*:password
pgpass_entry(parts) ==
    parts.host \o <<":">> \o to_string(parts.port) \o <<":">> \o parts.database
        \o <<":">> \o user_or(parts.user, "*") \o <<":">>
        \o (IF IsSome(parts.password) THEN Unwrap(parts.password) ELSE <<>>)
        \o <<"\n">>

\* a non-zero exit of the tool is an error, except for restore_globals
exit_result(op, success) ==
    IF success \/ op = "restore_globals" THEN [ok |-> TRUE, err |-> <<>>]
    ELSE [ok |-> FALSE,
          err |-> CASE op = "dump_globals"   -> <<"pg_dumpall failed to dump global objects.">>
                    [] op = "dump_schema"    -> <<"pg_dump failed to dump schema for database '">>
                                                    \o <<"d">> \o <<"'.">>
                    [] op = "dump_data"      -> <<"pg_dump failed to dump data for database '">>
                                                    \o <<"d">> \o <<"'.">>
                    [] op = "restore_schema" -> <<"Schema restoration failed.">>
                    [] op = "restore_data"   -> <<"Data restoration failed.">>]

NoFile == [exists |-> FALSE, mode |-> "-", content |-> <<>>, owner |-> "-",
           fresh |-> FALSE]

\* what the umask leaves of File::create's 0666
CreateModes == {"0644", "0600"}

\* a file another local process put at the path beforehand
ForeignFiles ==
    {[exists |-> TRUE, mode |-> m, content |-> <<>>, owner |-> "other", fresh |-> FALSE] :
        m \in {"0666"}}

TableLists == {None, Some(<< <<"\"public\".\"t\"">> >>)}

Parallelisms == {None, Some(2), Some(16)}

NoResult == [done |-> FALSE]

ToolInit ==
    /\ \E op \in ToolOps, c \in ToolUrls, umask \in CreateModes,
          ex \in TableLists, inc \in TableLists, par \in Parallelisms :
          /\ op \in {"dump_schema", "dump_data"} \/ (ex = None /\ inc = None)
          /\ op \in {"dump_data", "restore_data"} \/ par = None
          /\ tcall = [op |-> op, url |-> c, pc |-> "parse", guard |-> FALSE,
                      create_mode |-> umask, exclude_tables |-> ex,
                      include_tables |-> inc, available_parallelism |-> par]
    /\ pgfile \in {NoFile} \cup ForeignFiles
    /\ argvLog = {}
    /\ tresult = NoResult
    /\ UrlIdle
    /\ InitIdle
    /\ SqlIdle /\ CmdIdle /\ RetryIdle /\ WaitIdle /\ LagIdle /\ TempIdle /\ CallIdle

ToolReturn(r) ==
    /\ tresult' = [done |-> TRUE, ok |-> r.ok, err |-> r.err]
    /\ tcall' = [tcall EXCEPT !.pc = "returned", !.guard = FALSE]

\* parse_postgres_url(url).with_context(..)?
ToolParse ==
    /\ tcall.pc = "parse"
    /\ LET parts == parse_postgres_url(Render(tcall.url))
       IN  IF parts.ok
           THEN /\ tcall' = [tcall EXCEPT !.pc = "create"]
                /\ UNCHANGED tresult
           ELSE ToolReturn([ok |-> FALSE,
                            err |-> parse_failure_message(tcall.op, Render(tcall.url),
                                                          parts.err)])
    /\ UNCHANGED <<pgfile, argvLog, urlVars, initVars, auxVars>>

pgpass_failure(what) ==
    [ok |-> FALSE,
     err |-> <<"Failed to create .pgpass file for authentication: ", what>> \o PgPassPath]

\* PgPassFile::new, fs::File::create(&path): creates the file, or truncates
\* the file that is already there and keeps its mode and owner
PgPassCreate ==
    /\ tcall.pc = "create"
    /\ \/ /\ pgfile' = IF pgfile.exists
                       THEN [pgfile EXCEPT !.content = <<>>]
                       ELSE [exists |-> TRUE, mode |-> tcall.create_mode,
                             content |-> <<>>, owner |-> "self", fresh |-> TRUE]
          /\ tcall' = [tcall EXCEPT !.pc = "write"]
          /\ UNCHANGED tresult
       \/ /\ ToolReturn(pgpass_failure("Failed to create .pgpass file at "))
          /\ UNCHANGED pgfile
    /\ UNCHANGED <<argvLog, urlVars, initVars, auxVars>>

\* PgPassFile::new, file.write_all(entry)
PgPassWrite ==
    /\ tcall.pc = "write"
    /\ \/ /\ pgfile' = [pgfile EXCEPT
                           !.content = pgpass_entry(parse_postgres_url(Render(tcall.url)).val)]
          /\ tcall' = [tcall EXCEPT !.pc = "chmod"]
          /\ UNCHANGED tresult
       \/ /\ ToolReturn(pgpass_failure("Failed to write to .pgpass file at "))
          /\ UNCHANGED pgfile
    /\ UNCHANGED <<argvLog, urlVars, initVars, auxVars>>

\* PgPassFile::new, fs::set_permissions(&path, 0o600); only the owner of a
\* file may change its mode.  On success the PgPassFile value exists, and
\* with it the Drop that removes the file.
PgPassSetPermissions ==
    /\ tcall.pc = "chmod"
    /\ \/ /\ pgfile.owner = "self"
          /\ pgfile' = [pgfile EXCEPT !.mode = "0600"]
          /\ tcall' = [tcall EXCEPT !.pc = "spawn", !.guard = TRUE]
          /\ UNCHANGED tresult
       \/ /\ ToolReturn(pgpass_failure("Failed to set permissions on .pgpass file at "))
          /\ UNCHANGED pgfile
    /\ UNCHANGED <<argvLog, urlVars, initVars, auxVars>>

\* impl Drop for PgPassFile: remove_file(&self.path), result ignored
PgPassDrop ==
    pgfile' = IF tcall.guard THEN NoFile ELSE pgfile

\* cmd.status(): the tool is spawned with its argv and PGPASSFILE, or the
\* spawn fails
ToolSpawn ==
    /\ tcall.pc = "spawn"
    /\ \/ /\ argvLog' = argvLog \cup
                 {[argv |-> tool_argv(tcall, parse_postgres_url(Render(tcall.url)).val),
                   env  |-> {<<"PGPASSFILE", PgPassPath>>}]}
          /\ tcall' = [tcall EXCEPT !.pc = "wait"]
          /\ UNCHANGED <<tresult, pgfile>>
       \/ /\ ToolReturn([ok |-> FALSE,
                         err |-> <<"Failed to execute ",
                                   tool_argv(tcall,
                                       parse_postgres_url(Render(tcall.url)).val)[1][1],
                                   ". Is PostgreSQL client installed?">>])
          /\ PgPassDrop
          /\ UNCHANGED argvLog
    /\ UNCHANGED <<urlVars, initVars, auxVars>>

\* the tool exits; the call returns and drops its PgPassFile
ToolExit ==
    /\ tcall.pc = "wait"
    /\ \E success \in BOOLEAN : ToolReturn(exit_result(tcall.op, success))
    /\ PgPassDrop
    /\ UNCHANGED <<argvLog, urlVars, initVars, auxVars>>

ToolNext ==
    \/ ToolParse
    \/ PgPassCreate
    \/ PgPassWrite
    \/ PgPassSetPermissions
    \/ ToolSpawn
    \/ ToolExit

SpecTools == ToolInit /\ [][ToolNext]_vars

-----------------------------------------------------------------------------
(* Properties of the dump/restore driver (SpecTools)                       *)

\* C6: no character of the password ('x' occurs in passwords only) is in
\* the argv of a spawned tool or in the error the operation returns.
C6_PasswordNeverInArgvOrError ==
    /\ \A s \in argvLog : \A i \in 1..Len(s.argv) : "x" \notin Chars(s.argv[i])
    /\ (tresult.done /\ ~tresult.ok) => "x" \notin Chars(tresult.err)

\* C7: when the call has returned, a credential file created for it no
\* longer exists, whichever way the call ended.
C7_CredentialFileGoneOnReturn ==
    tcall.pc = "returned" => ~(pgfile.exists /\ pgfile.fresh)

\* C8: whenever the credential file exists and holds the password ('x'
\* occurs in passwords only) it has mode 0600 and was freshly created by
\* the call, not written over a file that was already there.
C8_PasswordOnlyInFresh0600File ==
    (pgfile.exists /\ "x" \in Chars(pgfile.content))
        => (pgfile.mode = "0600" /\ pgfile.fresh)

\* ---------------------------------------------------------------------------
\* commands::init: the snapshot orchestrator
\* ---------------------------------------------------------------------------

\* the databases list_databases finds on the source, ORDER BY datname
SourceDatabases == << <<"x">>, <<"y">>, <<"z">> >>

Range(seq) == {seq[i] : i \in 1..Len(seq)}

RECURSIVE SelectSeqBy(_, _)
SelectSeqBy(seq, keep) ==
    IF seq = <<>> THEN <<>>
    ELSE (IF Head(seq) \in keep THEN <<Head(seq)>> ELSE <<>>)
         \o SelectSeqBy(Tail(seq), keep)

\* ReplicationFilter: database include/exclude lists and per-table predicates
FilterAll == [include |-> {}, exclude |-> {}, predicates |-> {<< <<"y">>, <<"t">> >>}]

FilterNone == [include |-> {<<"w">>}, exclude |-> {}, predicates |-> {}]

Filters == {FilterAll, FilterNone}

should_replicate_database(filter, name) ==
    /\ (filter.include = {} \/ name \in filter.include)
    /\ name \notin filter.exclude

predicate_tables(filter, name) ==
    {p[2] : p \in {q \in filter.predicates : q[1] = name}}

\* a deterministic digest of the filter: equal filters, equal fingerprints
fingerprint(filter) == <<"fp", filter>>

\* InitCheckpointMetadata::new
metadata_new(source_url, target_url, filter_hash, drop_existing, enable_sync) ==
    [source |-> <<"hash", source_url>>, target |-> <<"hash", target_url>>,
     filter_hash |-> filter_hash, drop_existing |-> drop_existing,
     enable_sync |-> enable_sync]

\* InitCheckpoint::new: nothing completed yet
checkpoint_new(metadata, database_names) ==
    [metadata |-> metadata, databases |-> Range(database_names), completed |-> {}]

\* InitCheckpoint::validate: same metadata and same set of database names
checkpoint_validate(existing, metadata, database_names) ==
    /\ existing.metadata = metadata
    /\ existing.databases = Range(database_names)

is_completed(checkpoint, name) == name \in checkpoint.completed

mark_completed(checkpoint, name) ==
    [checkpoint EXCEPT !.completed = @ \cup {name}]

\* the deliberately persisted file is absent, or holds one whole checkpoint
NoCheckpoint == None

\* InitCheckpoint::save: the file is replaced as a whole (temp file, fsync,
\* rename), so a reader sees the old checkpoint or the new one
checkpoint_save(checkpoint) == Some(checkpoint)

\* InitCheckpoint::load of a readable file: None when absent
checkpoint_load(file) == file

\* is_ascii_alphabetic / is_ascii_alphanumeric
IsAsciiAlphabetic(c) == c \in Range(UpperLetters) \cup Range(LowerLetters)

IsAsciiAlphanumeric(c) == IsAsciiAlphabetic(c) \/ IsDigit(c)

Whitespace == {" ", "\t", "\n"}

RECURSIVE trim_start(_)
trim_start(s) ==
    IF s # <<>> /\ Head(s) \in Whitespace THEN trim_start(Tail(s)) ELSE s

RECURSIVE trim_end(_)
trim_end(s) ==
    IF s # <<>> /\ s[Len(s)] \in Whitespace
    THEN trim_end(SubSeq(s, 1, Len(s) - 1)) ELSE s

trim(s) == trim_end(trim_start(s))

\* PostgreSQL's identifier length limit
MaxIdentifierLen == 63

\* Ok iff the trimmed identifier is 1..63 characters, starts with a letter or
\* underscore and holds only letters, digits and underscores
validate_postgres_identifier(identifier) ==
    LET trimmed == trim(identifier)
    IN  /\ trimmed # <<>>
        /\ Len(trimmed) <= MaxIdentifierLen
        /\ (IsAsciiAlphabetic(trimmed[1]) \/ trimmed[1] = "_")
        /\ \A i \in 1..Len(trimmed) :
              IsAsciiAlphanumeric(trimmed[i]) \/ trimmed[i] = "_"

\* how many init calls one behaviour makes
MaxRuns == 2

\* the arguments of an init call
SourceUrl == Url(SchemePostgresql, Some(<<"u">>), Some(<<"x">>), <<"h">>, None, <<"d">>, None)

\* another server; the source under another spelling; a URL that does not parse
TargetUrls ==
    {Url(SchemePostgresql, Some(<<"u">>), Some(<<"x">>), <<"g">>, None, <<"d">>, None),
     [scheme |-> SchemePostgres,
      auth |-> [user |-> Some(<<"u">>), password |-> Some(<<"x", "x">>)],
      host |-> [text |-> <<"H">>, lower |-> <<"h">>],
      port |-> [text |-> Some(<<"5","4","3","2">>), valid |-> TRUE, number |-> 5432],
      database |-> <<"d">>, query |-> Some(<<"sslmode","=","require">>)],
     Url(SchemePostgresql, Some(<<"u">>), Some(<<"x">>), <<"h">>, Some(<<"z">>),
         <<"d">>, None)}

InitConfigs ==
    [source : {SourceUrl}, target : TargetUrls, skip_confirmation : BOOLEAN,
     filter : Filters, drop_existing : BOOLEAN, enable_sync : BOOLEAN,
     allow_resume : BOOLEAN]

\* how far a database of the target got: absent, created (no user tables),
\* schema (tables, no rows), data (rows), copied (filtered tables copied too)
TargetStages == {"absent", "created", "schema", "data", "copied"}

NoInitResult == [done |-> FALSE, ok |-> FALSE, kind |-> "-", at |-> "-"]

\* effects: what the call did outside its own memory; baseline: the baseline
\* checkpoint was saved; resumed: the completed set of the checkpoint the call
\* resumed from; skipped, created, finished: the databases the loop skipped,
\* created, and finished; remove_failed: the last remove_checkpoint failed;
\* consent: who allowed the pending drop, the drop_existing flag or the operator
NoGhost == [effects |-> {}, baseline |-> FALSE, resumed |-> None, finished |-> {},
            skipped |-> {}, created |-> {}, remove_failed |-> FALSE,
            consent |-> "-"]

\* killed at which step and database; same_args: the call after it was given
\* the same arguments, allow_resume aside
NoPrev == [killed |-> FALSE, at |-> "-", idx |-> 0, same_args |-> FALSE]

NoCheckpointState == [metadata |-> "-", databases |-> {}, completed |-> {}]

\* the databases left after line 118's filter
databases(c) ==
    SelectSeqBy(SourceDatabases,
                {d \in Range(SourceDatabases) : should_replicate_database(c.filter, d)})

db_info == databases(cfg)[idx]

checkpoint_metadata(c) ==
    metadata_new(Render(c.source), Render(c.target), fingerprint(c.filter),
                 c.drop_existing, c.enable_sync)

\* the tools the dump and restore drivers spawn
AllTools == {"pg_dump", "pg_dumpall", "psql", "pg_restore"}

\* a host with every tool, or with one of them missing
ToolSets == {AllTools} \cup {AllTools \ {t} : t \in AllTools}

\* Command::status() runs the tool only when it is found on PATH
CanSpawn(tool) == tool \in installed

InitStart ==
    /\ cfg \in InitConfigs
    /\ pc = "validate"
    /\ idx = 1
    /\ checkpoint_state = NoCheckpointState
    /\ ckptFile = NoCheckpoint
    /\ target = [d \in Range(SourceDatabases) |-> "absent"]
    /\ targetGlobals = FALSE
    /\ tempDir = FALSE
    /\ runs = 1
    /\ result = NoInitResult
    /\ ghost = NoGhost
    /\ prev = NoPrev
    /\ installed \in ToolSets

Init ==
    /\ InitStart
    /\ UrlIdle
    /\ ToolIdle
    /\ SqlIdle /\ CmdIdle /\ RetryIdle /\ WaitIdle /\ LagIdle /\ TempIdle /\ CallIdle

StepTo(p) == pc' = p /\ result' = result

ReturnErr(kind) ==
    /\ pc' = "done"
    /\ result' = [done |-> TRUE, ok |-> FALSE, kind |-> kind, at |-> pc]

ReturnOk ==
    /\ pc' = "done"
    /\ result' = [done |-> TRUE, ok |-> TRUE, kind |-> "-", at |-> pc]

Did(e) == ghost' = [ghost EXCEPT !.effects = @ \cup e]

\* init going on whatever the validation says
InitValidateLate ==
    /\ pc = "validate"
    /\ StepTo("create_temp_dir")
    /\ UNCHANGED <<cfg, idx, checkpoint_state, ckptFile, target, targetGlobals,
                   tempDir, ghost, prev, runs, urlVars, toolVars, installed, auxVars>>

\* line 90: the first statement of init
InitValidate ==
    /\ pc = "validate"
    /\ LET r == validate_source_target_different(Render(cfg.source), Render(cfg.target))
       IN  IF r.ok THEN StepTo("create_temp_dir") ELSE ReturnErr(r.kind)
    /\ UNCHANGED <<cfg, idx, checkpoint_state, ckptFile, target, targetGlobals,
                   tempDir, ghost, prev, runs, urlVars, toolVars, installed, auxVars>>

InitCreateTempDir ==
    /\ pc = "create_temp_dir"
    /\ \/ /\ tempDir' = TRUE
          /\ Did({"tempdir"})
          /\ StepTo("checkpoint_path")
       \/ /\ ReturnErr("create_temp_dir")
          /\ UNCHANGED <<tempDir, ghost>>
    /\ UNCHANGED <<cfg, idx, checkpoint_state, ckptFile, target, targetGlobals,
                   prev, runs, urlVars, toolVars, installed, auxVars>>

InitCheckpointPath ==
    /\ pc = "checkpoint_path"
    /\ \/ StepTo("dump_globals")
       \/ ReturnErr("checkpoint_path")
    /\ UNCHANGED <<cfg, idx, checkpoint_state, ckptFile, target, targetGlobals,
                   tempDir, ghost, prev, runs, urlVars, toolVars, installed, auxVars>>

InitDumpGlobals ==
    /\ pc = "dump_globals"
    /\ \/ CanSpawn("pg_dumpall") /\ Did({"spawn"}) /\ StepTo("restore_globals")
       \/ \E spawned \in {FALSE, CanSpawn("pg_dumpall")} :
             /\ Did(IF spawned THEN {"spawn"} ELSE {})
             /\ ReturnErr("dump_globals")
    /\ UNCHANGED <<cfg, idx, checkpoint_state, ckptFile, target, targetGlobals,
                   tempDir, prev, runs, urlVars, toolVars, installed, auxVars>>

\* a non-zero exit of psql is only warned about: the roles may exist already
InitRestoreGlobals ==
    /\ pc = "restore_globals"
    /\ \/ /\ CanSpawn("psql")
          /\ targetGlobals' = TRUE
          /\ Did({"spawn"})
          /\ StepTo("connect_source")
       \/ /\ ReturnErr("restore_globals")
          /\ UNCHANGED <<targetGlobals, ghost>>
    /\ UNCHANGED <<cfg, idx, checkpoint_state, ckptFile, target, tempDir, prev, runs,
                   urlVars, toolVars, installed, auxVars>>

InitConnectSource ==
    /\ pc = "connect_source"
    /\ Did({"connect"})
    /\ \/ StepTo("list_databases")
       \/ ReturnErr("connect_source")
    /\ UNCHANGED <<cfg, idx, checkpoint_state, ckptFile, target, targetGlobals,
                   tempDir, prev, runs, urlVars, toolVars, installed, auxVars>>

\* checkpoint::remove_checkpoint: removing an absent file succeeds; a file that
\* cannot be removed stays as it is
remove_checkpoint_outcomes(file) ==
    {[ok |-> TRUE, file |-> NoCheckpoint]}
        \cup (IF IsSome(file) THEN {[ok |-> FALSE, file |-> file]} ELSE {})

\* lines 115-135: list, filter, and the early exit when nothing is left
InitListDatabases ==
    /\ pc = "list_databases"
    /\ \/ /\ ReturnErr("list_databases")
          /\ UNCHANGED <<ckptFile, ghost>>
       \/ /\ databases(cfg) = <<>>
          /\ \E r \in remove_checkpoint_outcomes(ckptFile) :
                /\ ckptFile' = r.file
                /\ ghost' = [ghost EXCEPT !.effects = @ \cup {"ckpt_remove"},
                                          !.remove_failed = ~r.ok]
          /\ ReturnOk
       \/ /\ databases(cfg) # <<>>
          /\ StepTo("load_checkpoint")
          /\ UNCHANGED <<ckptFile, ghost>>
    /\ UNCHANGED <<cfg, idx, checkpoint_state, target, targetGlobals, tempDir, prev, runs,
                   urlVars, toolVars, installed, auxVars>>

\* lines 137-200: resume from a valid checkpoint, else start a new one
InitLoadCheckpoint ==
    /\ pc = "load_checkpoint"
    /\ LET names    == databases(cfg)
           metadata == checkpoint_metadata(cfg)
           fresh    == checkpoint_new(metadata, names)
           discard  ==
               \E r \in remove_checkpoint_outcomes(ckptFile) :
                  /\ ckptFile' = r.file
                  /\ ghost' = [ghost EXCEPT !.effects = @ \cup {"ckpt_remove"},
                                            !.remove_failed = ~r.ok]
                  /\ IF r.ok
                     THEN checkpoint_state' = fresh /\ StepTo("save_baseline")
                     ELSE UNCHANGED checkpoint_state /\ ReturnErr("remove_checkpoint")
       IN  IF cfg.allow_resume
           THEN \/ /\ IsSome(ckptFile)
                   /\ ReturnErr("load_checkpoint")
                   /\ Did({"ckpt_load"})
                   /\ UNCHANGED <<ckptFile, checkpoint_state>>
                \/ LET loaded == checkpoint_load(ckptFile)
                   IN  IF ~IsSome(loaded)
                       THEN /\ checkpoint_state' = fresh
                            /\ StepTo("save_baseline")
                            /\ Did({"ckpt_load"})
                            /\ UNCHANGED ckptFile
                       ELSE IF checkpoint_validate(Unwrap(loaded), metadata, names)
                       THEN /\ checkpoint_state' = Unwrap(loaded)
                            /\ StepTo("save_baseline")
                            /\ ghost' = [ghost EXCEPT
                                            !.effects = @ \cup {"ckpt_load"},
                                            !.resumed = Some(Unwrap(loaded).completed)]
                            /\ UNCHANGED ckptFile
                       ELSE discard
           ELSE discard
    /\ UNCHANGED <<cfg, idx, target, targetGlobals, tempDir, prev, runs, urlVars, toolVars, installed, auxVars>>

\* lines 203-205: the baseline checkpoint
InitSaveBaseline ==
    /\ pc = "save_baseline"
    /\ \/ /\ ckptFile' = checkpoint_save(checkpoint_state)
          /\ ghost' = [ghost EXCEPT !.effects = @ \cup {"ckpt_write"},
                                    !.baseline = TRUE]
          /\ StepTo("confirm")
       \/ /\ ReturnErr("save_checkpoint")
          /\ UNCHANGED <<ckptFile, ghost>>
    /\ UNCHANGED <<cfg, idx, checkpoint_state, target, targetGlobals, tempDir, prev, runs,
                   urlVars, toolVars, installed, auxVars>>

\* lines 210-219: size estimate and the operator's confirmation
InitConfirm ==
    /\ pc = "confirm"
    /\ IF cfg.skip_confirmation
       THEN StepTo("next_database")
       ELSE \/ ReturnErr("estimate_database_sizes")
            \/ ReturnErr("cancelled")
            \/ StepTo("next_database")
    /\ UNCHANGED <<cfg, idx, checkpoint_state, ckptFile, target, targetGlobals,
                   tempDir, ghost, prev, runs, urlVars, toolVars, installed, auxVars>>

\* a loop head that ignores the checkpoint
InitNextDatabaseNoSkip ==
    /\ pc = "next_database"
    /\ IF idx > Len(databases(cfg))
       THEN StepTo("remove_temp_dir")
       ELSE StepTo("connect_target")
    /\ UNCHANGED <<cfg, idx, checkpoint_state, ckptFile, target, targetGlobals,
                   tempDir, ghost, prev, runs, urlVars, toolVars, installed, auxVars>>

\* lines 223-231 and the end of the loop
InitNextDatabase ==
    /\ pc = "next_database"
    /\ IF idx > Len(databases(cfg))
       THEN StepTo("remove_temp_dir") /\ UNCHANGED <<idx, ghost>>
       ELSE IF is_completed(checkpoint_state, db_info)
       THEN /\ idx' = idx + 1
            /\ ghost' = [ghost EXCEPT !.skipped = @ \cup {db_info}]
            /\ StepTo("next_database")
       ELSE StepTo("connect_target") /\ UNCHANGED <<idx, ghost>>
    /\ UNCHANGED <<cfg, checkpoint_state, ckptFile, target, targetGlobals, tempDir,
                   prev, runs, urlVars, toolVars, installed, auxVars>>

\* lines 240-248: connect to the target, validate the database name
InitConnectTarget ==
    /\ pc = "connect_target"
    /\ Did({"connect"})
    /\ \/ ReturnErr("connect_target")
       \/ IF validate_postgres_identifier(db_info)
          THEN StepTo("create_database")
          ELSE ReturnErr("invalid_database_name")
    /\ UNCHANGED <<cfg, idx, checkpoint_state, ckptFile, target, targetGlobals,
                   tempDir, prev, runs, urlVars, toolVars, installed, auxVars>>

\* lines 251-317: CREATE DATABASE decides by itself whether the name is taken
InitCreateDatabase ==
    /\ pc = "create_database"
    /\ \/ /\ target[db_info] = "absent"
          /\ target' = [target EXCEPT ![db_info] = "created"]
          /\ ghost' = [ghost EXCEPT !.created = @ \cup {db_info}]
          /\ StepTo("dump_schema")
       \/ /\ target[db_info] # "absent"
          /\ StepTo("database_is_empty")
          /\ UNCHANGED <<target, ghost>>
       \/ /\ ReturnErr("create_database")
          /\ UNCHANGED <<target, ghost>>
    /\ UNCHANGED <<cfg, idx, checkpoint_state, ckptFile, targetGlobals, tempDir, prev, runs,
                   urlVars, toolVars, installed, auxVars>>

\* a policy that drops whatever it finds
InitDatabaseIsEmptyAlwaysDrop ==
    /\ pc = "database_is_empty"
    /\ \/ ReturnErr("database_is_empty") /\ UNCHANGED ghost
       \/ /\ StepTo("drop_database")
          /\ ghost' = [ghost EXCEPT !.consent = "flag"]
    /\ UNCHANGED <<cfg, idx, checkpoint_state, ckptFile, target, targetGlobals,
                   tempDir, prev, runs, urlVars, toolVars, installed, auxVars>>

\* lines 264-304: an existing database is reused when empty, dropped when
\* allowed, and stops the run otherwise
InitDatabaseIsEmpty ==
    /\ pc = "database_is_empty"
    /\ \/ ReturnErr("database_is_empty") /\ UNCHANGED ghost
       \/ /\ target[db_info] # "absent"
          /\ IF target[db_info] = "created"
             THEN StepTo("dump_schema") /\ UNCHANGED ghost
             ELSE IF cfg.drop_existing
             THEN /\ StepTo("drop_database")
                  /\ ghost' = [ghost EXCEPT !.consent = "flag"]
             ELSE IF cfg.skip_confirmation
             THEN ReturnErr("exists_with_data") /\ UNCHANGED ghost
             ELSE \/ /\ StepTo("drop_database")
                     /\ ghost' = [ghost EXCEPT !.consent = "operator"]
                  \/ ReturnErr("aborted") /\ UNCHANGED ghost
                  \/ ReturnErr("prompt_drop_database") /\ UNCHANGED ghost
    /\ UNCHANGED <<cfg, idx, checkpoint_state, ckptFile, target, targetGlobals,
                   tempDir, prev, runs, urlVars, toolVars, installed, auxVars>>

\* drop_database_if_exists
InitDropDatabase ==
    /\ pc = "drop_database"
    /\ \/ /\ validate_postgres_identifier(db_info)
          /\ target' = [target EXCEPT ![db_info] = "absent"]
          /\ StepTo("recreate_database")
       \/ /\ ReturnErr("drop_database")
          /\ UNCHANGED target
    /\ UNCHANGED <<cfg, idx, checkpoint_state, ckptFile, targetGlobals, tempDir,
                   ghost, prev, runs, urlVars, toolVars, installed, auxVars>>

\* lines 290-300
InitRecreateDatabase ==
    /\ pc = "recreate_database"
    /\ \/ /\ target[db_info] = "absent"
          /\ target' = [target EXCEPT ![db_info] = "created"]
          /\ ghost' = [ghost EXCEPT !.created = @ \cup {db_info}, !.consent = "-"]
          /\ StepTo("dump_schema")
       \/ /\ ReturnErr("recreate_database")
          /\ UNCHANGED <<target, ghost>>
    /\ UNCHANGED <<cfg, idx, checkpoint_state, ckptFile, targetGlobals, tempDir, prev, runs,
                   urlVars, toolVars, installed, auxVars>>

\* lines 320-328: the dump goes to the temp directory
InitDumpSchema ==
    /\ pc = "dump_schema"
    /\ \/ CanSpawn("pg_dump") /\ Did({"spawn"}) /\ StepTo("restore_schema")
       \/ \E spawned \in {FALSE, CanSpawn("pg_dump")} :
             /\ Did(IF spawned THEN {"spawn"} ELSE {})
             /\ ReturnErr("dump_schema")
    /\ UNCHANGED <<cfg, idx, checkpoint_state, ckptFile, target, targetGlobals,
                   tempDir, prev, runs, urlVars, toolVars, installed, auxVars>>

\* line 331: the target database gets its tables
InitRestoreSchema ==
    /\ pc = "restore_schema"
    /\ \/ /\ CanSpawn("psql")
          /\ target[db_info] # "absent"
          /\ target' = [target EXCEPT ![db_info] = "schema"]
          /\ Did({"spawn"})
          /\ StepTo("dump_data")
       \/ /\ ReturnErr("restore_schema")
          /\ UNCHANGED <<target, ghost>>
    /\ UNCHANGED <<cfg, idx, checkpoint_state, ckptFile, targetGlobals, tempDir, prev,
                   runs, urlVars, toolVars, installed, auxVars>>

\* lines 334-342
InitDumpData ==
    /\ pc = "dump_data"
    /\ \/ CanSpawn("pg_dump") /\ Did({"spawn"}) /\ StepTo("restore_data")
       \/ \E spawned \in {FALSE, CanSpawn("pg_dump")} :
             /\ Did(IF spawned THEN {"spawn"} ELSE {})
             /\ ReturnErr("dump_data")
    /\ UNCHANGED <<cfg, idx, checkpoint_state, ckptFile, target, targetGlobals,
                   tempDir, prev, runs, urlVars, toolVars, installed, auxVars>>

\* init going on without the data restore
InitRestoreDataSkipped ==
    /\ pc = "restore_data"
    /\ StepTo("mark_completed")
    /\ UNCHANGED <<cfg, idx, checkpoint_state, ckptFile, target, targetGlobals,
                   tempDir, ghost, prev, runs, urlVars, toolVars, installed, auxVars>>

\* line 345, then line 347 picks the filtered copy or the end of the iteration
InitRestoreData ==
    /\ pc = "restore_data"
    /\ \/ /\ CanSpawn("pg_restore")
          /\ target[db_info] # "absent"
          /\ target' = [target EXCEPT ![db_info] = "data"]
          /\ Did({"spawn"})
          /\ StepTo(IF predicate_tables(cfg.filter, db_info) # {}
                   THEN "copy_filtered_tables" ELSE "mark_completed")
       \/ /\ ReturnErr("restore_data")
          /\ UNCHANGED <<target, ghost>>
    /\ UNCHANGED <<cfg, idx, checkpoint_state, ckptFile, targetGlobals, tempDir, prev,
                   runs, urlVars, toolVars, installed, auxVars>>

\* lines 347-358
InitCopyFilteredTables ==
    /\ pc = "copy_filtered_tables"
    /\ \/ /\ target[db_info] # "absent"
          /\ target' = [target EXCEPT ![db_info] = "copied"]
          /\ Did({"spawn"})
          /\ StepTo("mark_completed")
       \/ /\ ReturnErr("copy_filtered_tables")
          /\ UNCHANGED <<target, ghost>>
    /\ UNCHANGED <<cfg, idx, checkpoint_state, ckptFile, targetGlobals, tempDir, prev,
                   runs, urlVars, toolVars, installed, auxVars>>

\* marking completed in memory only
InitMarkCompletedUnsaved ==
    /\ pc = "mark_completed"
    /\ checkpoint_state' = mark_completed(checkpoint_state, db_info)
    /\ ghost' = [ghost EXCEPT !.finished = @ \cup {db_info}]
    /\ idx' = idx + 1
    /\ StepTo("next_database")
    /\ UNCHANGED <<cfg, ckptFile, target, targetGlobals, tempDir, prev, runs,
                   urlVars, toolVars, installed, auxVars>>

\* lines 360-366: only now is the database marked completed and saved
InitMarkCompleted ==
    /\ pc = "mark_completed"
    /\ checkpoint_state' = mark_completed(checkpoint_state, db_info)
    /\ \/ /\ ckptFile' = checkpoint_save(checkpoint_state')
          /\ ghost' = [ghost EXCEPT !.effects = @ \cup {"ckpt_write"},
                                    !.finished = @ \cup {db_info}]
          /\ idx' = idx + 1
          /\ StepTo("next_database")
       \/ /\ ReturnErr("save_checkpoint")
          /\ UNCHANGED <<ckptFile, ghost, idx>>
    /\ UNCHANGED <<cfg, target, targetGlobals, tempDir, prev, runs, urlVars,
                   toolVars, installed, auxVars>>

\* lines 370-373: a failure is only warned about
InitRemoveTempDir ==
    /\ pc = "remove_temp_dir"
    /\ \/ tempDir' = FALSE
       \/ UNCHANGED tempDir
    /\ StepTo("remove_checkpoint")
    /\ UNCHANGED <<cfg, idx, checkpoint_state, ckptFile, target, targetGlobals,
                   ghost, prev, runs, urlVars, toolVars, installed, auxVars>>

\* a cleanup that leaves the checkpoint alone
InitRemoveCheckpointSkipped ==
    /\ pc = "remove_checkpoint"
    /\ IF cfg.enable_sync THEN StepTo("sync") ELSE ReturnOk
    /\ UNCHANGED <<cfg, idx, checkpoint_state, ckptFile, target, targetGlobals,
                   tempDir, ghost, prev, runs, urlVars, toolVars, installed, auxVars>>

\* lines 375-382: a failure is only warned about
InitRemoveCheckpoint ==
    /\ pc = "remove_checkpoint"
    /\ \E r \in remove_checkpoint_outcomes(ckptFile) :
          /\ ckptFile' = r.file
          /\ ghost' = [ghost EXCEPT !.effects = @ \cup {"ckpt_remove"},
                                    !.remove_failed = ~r.ok]
    /\ IF cfg.enable_sync THEN StepTo("sync") ELSE ReturnOk
    /\ UNCHANGED <<cfg, idx, checkpoint_state, target, targetGlobals, tempDir, prev, runs,
                   urlVars, toolVars, installed, auxVars>>

\* lines 390-411: the chained sync phase
InitSync ==
    /\ pc = "sync"
    /\ \/ ReturnOk
       \/ ReturnErr("sync")
    /\ UNCHANGED <<cfg, idx, checkpoint_state, ckptFile, target, targetGlobals,
                   tempDir, ghost, prev, runs, urlVars, toolVars, installed, auxVars>>

\* the process is killed between two steps: memory is lost, disk and target stay
InitKill ==
    /\ pc \notin {"-", "done", "killed"}
    /\ pc' = "killed"
    /\ result' = [done |-> TRUE, ok |-> FALSE, kind |-> "killed", at |-> pc]
    /\ UNCHANGED <<cfg, idx, checkpoint_state, ckptFile, target, targetGlobals,
                   tempDir, ghost, prev, runs, urlVars, toolVars, installed, auxVars>>

\* the operator runs init again on the same pair of servers; the directory
\* of the call before stays on disk for the startup sweep, the new call gets
\* its own
InitStartRun ==
    /\ pc \in {"done", "killed"}
    /\ runs < MaxRuns
    /\ runs' = runs + 1
    /\ cfg' \in {c \in InitConfigs : c.source = cfg.source /\ c.target = cfg.target}
    /\ pc' = "validate"
    /\ idx' = 1
    /\ checkpoint_state' = NoCheckpointState
    /\ tempDir' = FALSE
    /\ result' = NoInitResult
    /\ ghost' = NoGhost
    /\ prev' = IF pc = "killed"
               THEN [killed |-> TRUE, at |-> result.at, idx |-> idx,
                     same_args |-> [cfg' EXCEPT !.allow_resume = TRUE]
                                       = [cfg EXCEPT !.allow_resume = TRUE]]
               ELSE NoPrev
    /\ UNCHANGED <<ckptFile, target, targetGlobals, urlVars, toolVars, installed, auxVars>>

Next ==
    \/ InitValidate
    \/ InitCreateTempDir
    \/ InitCheckpointPath
    \/ InitDumpGlobals
    \/ InitRestoreGlobals
    \/ InitConnectSource
    \/ InitListDatabases
    \/ InitLoadCheckpoint
    \/ InitSaveBaseline
    \/ InitConfirm
    \/ InitNextDatabase
    \/ InitConnectTarget
    \/ InitCreateDatabase
    \/ InitDatabaseIsEmpty
    \/ InitDropDatabase
    \/ InitRecreateDatabase
    \/ InitDumpSchema
    \/ InitRestoreSchema
    \/ InitDumpData
    \/ InitRestoreData
    \/ InitCopyFilteredTables
    \/ InitMarkCompleted
    \/ InitRemoveTempDir
    \/ InitRemoveCheckpoint
    \/ InitSync
    \/ InitKill
    \/ InitStartRun

Spec == Init /\ [][Next]_vars

\* ---------------------------------------------------------------------------
\* Properties of commands::init (checked under Spec)
\* ---------------------------------------------------------------------------

X == <<"x">>

Y == <<"y">>

Z == <<"z">>

Returned == pc = "done"

\* both URLs parse and denote the same (host, port, database, user)
SameIdentity(c) ==
    /\ Parseable(c.source)
    /\ Parseable(c.target)
    /\ Identity(c.source) = Identity(c.target)

\* C1: an init call whose source and target denote the same database does
\* nothing but validate: it never leaves the validation step except by
\* returning the same-database error, with no temp directory, no checkpoint
\* load, write or remove, no connection and no spawned tool, whatever the flags
C1_SameDatabaseRejectedBeforeAnyEffect ==
    SameIdentity(cfg) =>
        /\ pc \in {"validate", "done", "killed"}
        /\ ghost.effects = {}
        /\ ~tempDir
        /\ ckptFile = NoCheckpoint
        /\ Returned => (~result.ok /\ result.kind = "same")

C1_Witness ==
    /\ SameIdentity(cfg)
    /\ Returned
    /\ result.kind = "same"
    /\ cfg.allow_resume /\ cfg.drop_existing /\ cfg.skip_confirmation
    /\ runs = 2

\* the filter a checkpoint was taken under
checkpoint_filter(checkpoint) == checkpoint.metadata.filter_hash[2]

\* created, schema restored, data restored, and the filtered tables copied
\* when the filter has predicates on the database
FullyReplicated(d, filter) ==
    target[d] = IF predicate_tables(filter, d) # {} THEN "copied" ELSE "data"

\* C2: at every point of every call, a kill between two steps included, the
\* checkpoint file is absent or holds a checkpoint whose completed databases
\* are all fully replicated on the target
C2_CheckpointNeverAheadOfTarget ==
    IsSome(ckptFile) =>
        \A d \in Unwrap(ckptFile).completed :
            FullyReplicated(d, checkpoint_filter(Unwrap(ckptFile)))

C2_Witness ==
    /\ pc = "killed"
    /\ result.at = "restore_data"
    /\ db_info = Y
    /\ IsSome(ckptFile)
    /\ Unwrap(ckptFile).completed = {X}
    /\ target[X] = "data"
    /\ target[Y] = "schema"

\* the first call completed x and was killed during y's data dump; the second
\* has the same arguments with allow_resume and resumed from the checkpoint
ResumedAfterKill ==
    /\ runs = 2
    /\ prev.killed /\ prev.at = "dump_data" /\ prev.idx = 2 /\ prev.same_args
    /\ cfg.allow_resume
    /\ ghost.resumed = Some({X})

\* errors that come from outside init: a tool, a connection, the file
\* system, or the operator answering no
OutsideFailures ==
    {"dump_schema", "restore_schema", "dump_data", "restore_data",
     "copy_filtered_tables", "connect_target", "create_database",
     "database_is_empty", "prompt_drop_database", "drop_database",
     "recreate_database", "save_checkpoint", "estimate_database_sizes",
     "cancelled", "aborted", "sync"}

Undisturbed == result.kind \notin OutsideFailures /\ ~ghost.remove_failed

ResumeCompleted ==
    /\ result.ok
    /\ ghost.skipped = {X}
    /\ ghost.created = {Y, Z}
    /\ ghost.finished = {Y, Z}
    /\ \A d \in {X, Y, Z} : FullyReplicated(d, cfg.filter)
    /\ ckptFile = NoCheckpoint

CheckpointKept ==
    /\ IsSome(ckptFile)
    /\ ghost.finished \subseteq Unwrap(ckptFile).completed

\* C5 as stated: an error returned after the baseline checkpoint was saved
\* leaves the checkpoint file, holding every database that finished
C5_CheckpointKeptOnError ==
    (Returned /\ ~result.ok /\ ghost.baseline) => CheckpointKept

\* C5, amended: the same for every error returned before the final cleanup;
\* the sync phase fails after the checkpoint was removed
C5_CheckpointKeptOnErrorBeforeCleanup ==
    (Returned /\ ~result.ok /\ ghost.baseline /\ result.at # "sync")
        => CheckpointKept

C5_Witness ==
    /\ Returned
    /\ ~result.ok
    /\ ghost.baseline
    /\ result.at = "restore_data"
    /\ ghost.finished = {X}
    /\ IsSome(ckptFile)
    /\ Unwrap(ckptFile).completed = {X}

\* ---------------------------------------------------------------------------
\* Names in SQL statements (SpecSql): the identifier guard and every statement
\* that is built by interpolating a name.  A statement is a sequence whose
\* elements are keywords and the characters of the interpolated names.

\* utils.rs quote_ident: every embedded quote is doubled
RECURSIVE quote_ident_chars(_)
quote_ident_chars(identifier) ==
    IF identifier = <<>> THEN <<>>
    ELSE (IF Head(identifier) = "\"" THEN <<"\"", "\"">> ELSE <<Head(identifier)>>)
         \o quote_ident_chars(Tail(identifier))

quote_ident(identifier) == <<"\"">> \o quote_ident_chars(identifier) \o <<"\"">>

\* format!("\"{}\"", name)
in_double_quotes(name) == <<"\"">> \o name \o <<"\"">>

\* format!("'{}'", name)
in_single_quotes(name) == <<"'">> \o name \o <<"'">>

\* Vec<String>::join(", ")
RECURSIVE join(_, _)
join(parts, sep) ==
    IF parts = <<>> THEN <<>>
    ELSE IF Len(parts) = 1 THEN parts[1]
    ELSE parts[1] \o <<sep>> \o join(Tail(parts), sep)

\* longest generated name besides the names at the length limit
MaxNameLen == 2

SqlAlphabet == {"a", "1", "_", " ", "-", "\""}

Repeat(c, n) == [i \in 1..n |-> c]

\* short names of every shape, a name of the longest allowed length, one
\* character more, and the longest allowed name behind a blank
SqlNames ==
    StringsUpTo(SqlAlphabet, MaxNameLen)
        \cup {Repeat("a", MaxIdentifierLen), Repeat("a", MaxIdentifierLen + 1),
              <<" ">> \o Repeat("a", MaxIdentifierLen)}

NoSql(name) ==
    [name |-> name, op |-> "-", guarded |-> FALSE, accepted |-> FALSE,
     carries |-> FALSE, executed |-> None]

SqlInit ==
    /\ sql \in {NoSql(name) : name \in SqlNames}
    /\ UrlIdle /\ ToolIdle /\ InitIdle
    /\ CmdIdle /\ RetryIdle /\ WaitIdle /\ LagIdle /\ TempIdle /\ CallIdle

\* what a call leaves behind: whether the guard ran on the name, what it said,
\* the statement handed to the server (None when the call stopped before) and
\* whether the name was interpolated into it
SqlCall(op, guarded, accepted, carries, executed) ==
    [name |-> sql.name, op |-> op, guarded |-> guarded, accepted |-> accepted,
     carries |-> carries /\ IsSome(executed), executed |-> executed]

sqlOthers == <<urlVars, toolVars, initVars, cmd, retry, wait, lag, temp, fncall>>

\* utils.rs validate_postgres_identifier, called on its own
SqlValidate ==
    /\ sql' = SqlCall("validate_postgres_identifier", TRUE,
                      validate_postgres_identifier(sql.name), FALSE, None)
    /\ UNCHANGED sqlOthers

\* init.rs 246-252: guard, then CREATE DATABASE
SqlCreateDatabase ==
    LET ok == validate_postgres_identifier(sql.name)
    IN  /\ sql' = SqlCall("create_database", TRUE, ok, TRUE,
                          IF ok THEN Some(<<"CREATE DATABASE ">> \o in_double_quotes(sql.name))
                          ELSE None)
        /\ UNCHANGED sqlOthers

\* init.rs drop_database_if_exists: guard, then DROP DATABASE
SqlDropDatabase ==
    LET ok == validate_postgres_identifier(sql.name)
    IN  /\ sql' = SqlCall("drop_database_if_exists", TRUE, ok, TRUE,
                          IF ok
                          THEN Some(<<"DROP DATABASE IF EXISTS ">> \o in_double_quotes(sql.name))
                          ELSE None)
        /\ UNCHANGED sqlOthers

\* publication.rs create_publication: FOR ALL TABLES, or the list of the
\* tables that pass the filter (none: the call stops)
SqlCreatePublication ==
    \E has_table_filter \in BOOLEAN,
       filtered_tables \in {<<>>, <<[schema |-> <<"s">>, name |-> sql.name]>>} :
        LET table_list ==
                [i \in 1..Len(filtered_tables) |->
                    in_double_quotes(filtered_tables[i].schema) \o <<".">>
                        \o in_double_quotes(filtered_tables[i].name)]
            query ==
                IF has_table_filter
                THEN <<"CREATE PUBLICATION ">> \o in_double_quotes(sql.name)
                        \o <<" FOR TABLE ">> \o join(table_list, ", ")
                ELSE <<"CREATE PUBLICATION ">> \o in_double_quotes(sql.name)
                        \o <<" FOR ALL TABLES">>
        IN  /\ sql' = SqlCall("create_publication", FALSE, FALSE, TRUE,
                              IF has_table_filter /\ filtered_tables = <<>>
                              THEN None ELSE Some(query))
            /\ UNCHANGED sqlOthers

\* publication.rs drop_publication
SqlDropPublication ==
    /\ sql' = SqlCall("drop_publication", FALSE, FALSE, TRUE,
                      Some(<<"DROP PUBLICATION IF EXISTS ">> \o in_double_quotes(sql.name)))
    /\ UNCHANGED sqlOthers

\* subscription.rs create_subscription
SqlCreateSubscription ==
    \E publication_name \in {<<"p">>, sql.name} :
        /\ sql' = SqlCall("create_subscription", FALSE, FALSE, TRUE,
                          Some(<<"CREATE SUBSCRIPTION ">> \o in_double_quotes(sql.name)
                                  \o <<" CONNECTION ">> \o in_single_quotes(<<"source">>)
                                  \o <<" PUBLICATION ">> \o in_double_quotes(publication_name)))
        /\ UNCHANGED sqlOthers

\* subscription.rs drop_subscription
SqlDropSubscription ==
    /\ sql' = SqlCall("drop_subscription", FALSE, FALSE, TRUE,
                      Some(<<"DROP SUBSCRIPTION IF EXISTS ">> \o in_double_quotes(sql.name)))
    /\ UNCHANGED sqlOthers

\* monitor.rs get_replication_lag
SqlGetReplicationLag ==
    \E subscription_name \in {None, Some(sql.name)} :
        /\ sql' = SqlCall("get_replication_lag", FALSE, FALSE, IsSome(subscription_name),
                          Some(IF IsSome(subscription_name)
                               THEN <<"SELECT FROM pg_stat_replication WHERE application_name = ">>
                                      \o in_single_quotes(Unwrap(subscription_name))
                               ELSE <<"SELECT FROM pg_stat_replication">>))
        /\ UNCHANGED sqlOthers

\* monitor.rs get_subscription_status
SqlGetSubscriptionStatus ==
    \E subscription_name \in {None, Some(sql.name)} :
        /\ sql' = SqlCall("get_subscription_status", FALSE, FALSE, IsSome(subscription_name),
                          Some(IF IsSome(subscription_name)
                               THEN <<"SELECT FROM pg_stat_subscription WHERE subname = ">>
                                      \o in_single_quotes(Unwrap(subscription_name))
                               ELSE <<"SELECT FROM pg_stat_subscription">>))
        /\ UNCHANGED sqlOthers

\* checksum.rs compute_table_checksum: the columns come from the catalog (a
\* table without columns stops the call), schema and table from the caller
SqlComputeTableChecksum ==
    \E columns \in {<<>>, <<sql.name>>, <<<<"c">>, sql.name>>} :
        LET coalesce_exprs ==
                [i \in 1..Len(columns) |->
                    <<"COALESCE(">> \o in_double_quotes(columns[i]) \o <<"::text, '')">>]
            order_by == [i \in 1..Len(columns) |-> in_double_quotes(columns[i])]
            checksum_query ==
                <<"SELECT md5 FROM (SELECT ">>
                    \o join(coalesce_exprs, " || '|' || ")
                    \o <<" ROW_NUMBER() OVER (ORDER BY ">> \o join(order_by, ", ")
                    \o <<") FROM ">> \o in_double_quotes(<<"s">>) \o <<".">>
                    \o in_double_quotes(sql.name) \o <<") t">>
        IN  /\ sql' = SqlCall("compute_table_checksum", FALSE, FALSE, TRUE,
                              IF columns = <<>> THEN None ELSE Some(checksum_query))
            /\ UNCHANGED sqlOthers

SqlNext ==
    \/ SqlValidate
    \/ SqlCreateDatabase
    \/ SqlDropDatabase
    \/ SqlCreatePublication
    \/ SqlDropPublication
    \/ SqlCreateSubscription
    \/ SqlDropSubscription
    \/ SqlGetReplicationLag
    \/ SqlGetSubscriptionStatus
    \/ SqlComputeTableChecksum

SpecSql == SqlInit /\ [][SqlNext]_vars

\* the identifiers the guard is meant to let through: 1 to 63 characters,
\* the first a letter or underscore, the others letters, digits, underscores
WellFormedIdentifier(s) ==
    /\ Len(s) \in 1..MaxIdentifierLen
    /\ (IsAsciiAlphabetic(s[1]) \/ s[1] = "_")
    /\ \A i \in 1..Len(s) : IsAsciiAlphanumeric(s[i]) \/ s[i] = "_"

\* C11: the guard accepts a name exactly when the name is 1 to 63 characters
\* long, starts with a letter or underscore and holds only letters, digits and
\* underscores (so blanks anywhere, a leading digit, the empty name and 64
\* characters are rejected).
C11_GuardAcceptsExactlyWellFormed ==
    sql.op = "validate_postgres_identifier"
        => (sql.accepted <=> WellFormedIdentifier(sql.name))

\* is part a contiguous piece of whole
ContainsSeq(whole, part) ==
    \E i \in 0..(Len(whole) - Len(part)) :
        SubSeq(whole, i + 1, i + Len(part)) = part

\* C12: a statement that carries a name is handed to the server only after the
\* guard accepted the name, and carries the name in double quotes with the
\* embedded quotes doubled.
C12_NamesGuardedAndQuoted ==
    (IsSome(sql.executed) /\ sql.carries)
        => /\ sql.guarded
           /\ sql.accepted
           /\ ContainsSeq(Unwrap(sql.executed), quote_ident(sql.name))

\* a database of the target holds at least one user table
HasUserTables(stage) == stage \in {"schema", "data", "copied", "foreign"}

\* what each step of init may do to a database that was on the target before
DropPolicyStep ==
    /\ \A d \in DOMAIN target :
          (target[d] # "absent" /\ target'[d] = "absent")
              => /\ pc = "drop_database"
                 /\ d = db_info
                 /\ HasUserTables(target[d])
                 /\ \/ cfg.drop_existing
                    \/ ghost.consent = "operator" /\ ~cfg.skip_confirmation
    /\ (pc = "database_is_empty" /\ ~HasUserTables(target[db_info]))
          => (target' = target /\ pc' # "drop_database")
    /\ (/\ pc = "database_is_empty"
        /\ HasUserTables(target[db_info])
        /\ cfg.skip_confirmation
        /\ ~cfg.drop_existing)
          => (target' = target /\ result'.done /\ ~result'.ok)

\* C13: init drops a database that was on the target before only when it
\* holds a user table and either drop_existing is set or the operator said
\* yes at the prompt; a database without user tables is used as it is; with
\* skip_confirmation and without drop_existing a database with tables ends
\* the run in an error and stays as it was.
C13_DropOnlyNonEmptyAndAllowed == [][DropPolicyStep]_vars

\* the operator said yes and the database with tables is gone
C13_Witness ==
    /\ pc = "recreate_database"
    /\ ghost.consent = "operator"
    /\ ~cfg.drop_existing
    /\ target[db_info] = "absent"

\* C14: init touches nothing (no directory, no tool, no connection, no file)
\* unless pg_dump, pg_dumpall, psql and pg_restore were all found.
C14_AllToolsConfirmedBeforeAnyEffect ==
    (pc # "-" /\ (tempDir \/ ghost.effects # {})) => installed = AllTools

\* monitor.rs 155: a replay lag above 1000 ms is not caught up
CaughtUpLimitMs == 1000

\* monitor.rs 152-164: the loop over the rows
RECURSIVE every_slot_caught_up(_)
every_slot_caught_up(stats) ==
    IF stats = <<>> THEN TRUE
    ELSE IF IsSome(Head(stats).replay_lag_ms)
    THEN IF Unwrap(Head(stats).replay_lag_ms) > CaughtUpLimitMs
         THEN FALSE
         ELSE every_slot_caught_up(Tail(stats))
    ELSE FALSE

\* the check without its guard for an empty answer
caught_up_when_empty(stats) == every_slot_caught_up(stats)

\* monitor.rs 147-164, on the rows of a successful query
is_replication_caught_up(stats) ==
    IF stats = <<>> THEN FALSE ELSE every_slot_caught_up(stats)

\* ---------------------------------------------------------------------------
\* The commands (SpecCmd): validate, sync, status and verify as the sequence of
\* steps each one takes, next to init.  A step either goes on ("ok"), ends the
\* command in an error ("err") or ends it early in success ("return").

\* utils.rs check_required_tools: the tools it looks for
RequiredTools == {"pg_dump", "pg_dumpall", "psql"}

check_required_tools == RequiredTools \subseteq installed

count_matches(s, c) == Cardinality({i \in 1..Len(s) : s[i] = c})

\* utils.rs validate_connection_string
validate_connection_string(url) ==
    /\ trim(url) # <<>>
    /\ (starts_with(url, SchemePostgres) \/ starts_with(url, SchemePostgresql))
    /\ count_matches(url, "@") > 0
    /\ count_matches(url, "/") >= 3

Step(name, db, outcomes) == [step |-> name, db |-> db, outcomes |-> outcomes]

Decide(ok) == IF ok THEN {"ok"} ELSE {"err"}

MayFail == {"ok", "err"}

RECURSIVE FlattenSeq(_)
FlattenSeq(seqs) ==
    IF seqs = <<>> THEN <<>> ELSE Head(seqs) \o FlattenSeq(Tail(seqs))

\* the opening every command shares: refuse the same database on both sides,
\* connect to the source, list its databases, keep those the filter lets
\* through; on_empty is what the command does when none is left
discover(c, on_empty) ==
    <<Step("validate_source_target_different", None,
           Decide(validate_source_target_different(Render(c.source),
                                                   Render(c.target)).ok)),
      Step("connect_source", None, MayFail),
      Step("list_databases", None, MayFail),
      Step("filter_databases", None,
           IF databases(c) = <<>> THEN {on_empty} ELSE {"ok"})>>

\* what SHOW server_version says: a release such as "16.2 (D)" or a
\* pre-release such as "17beta1"
server_version(v) ==
    to_string(v.major)
        \o (IF v.kind = "release" THEN <<".", "2", " ", "(", "D", ")">>
            ELSE <<"b", "e", "t", "a", "1">>)

\* str::parse::<u32>() on the short texts found here: an optional '+', then
\* one or more digits
parse_u32(p) ==
    LET body == IF Len(p) > 0 /\ p[1] = "+" THEN Tail(p) ELSE p
    IN  IF Len(body) = 0 \/ \E i \in 1..Len(body) : ~IsDigit(body[i])
        THEN None
        ELSE Some(DigitsValue(body))

\* str::split_whitespace().next()
first_word(s) ==
    LET t == trim_start(s)
        i == IF \E k \in 1..Len(t) : t[k] \in Whitespace
             THEN CHOOSE k \in 1..Len(t) :
                      t[k] \in Whitespace /\ \A j \in 1..(k - 1) : t[j] \notin Whitespace
             ELSE Len(t) + 1
    IN  IF t = <<>> THEN None ELSE Some(SubSeq(t, 1, i - 1))

\* validate.rs 214-234 get_pg_version, on the text the server returned
get_pg_version(version_str) ==
    LET word == first_word(version_str)
        parts == split(IF IsSome(word) THEN Unwrap(word) ELSE <<"0", ".", "0">>, ".")
        number(part) == IF IsSome(parse_u32(part)) THEN Unwrap(parse_u32(part)) ELSE 0
    IN  [major |-> number(parts[1]),
         minor |-> IF Len(parts) >= 2 THEN number(parts[2]) ELSE 0]

\* extensions.rs 83-90
PreloadRequiredExtensions ==
    {"timescaledb", "citus", "pg_stat_statements", "pg_cron", "auto_explain",
     "pg_partman_bgw"}

\* extensions.rs 93-95 requires_preload
requires_preload(extension_name) == extension_name \in PreloadRequiredExtensions

\* extensions.rs 21-39 get_installed_extensions: the rows of pg_extension
\* other than plpgsql
get_installed_extensions(installed_extensions) ==
    {e \in installed_extensions : e.name # "plpgsql"}

\* extensions.rs 64-80 get_preloaded_libraries: the setting split at commas,
\* trimmed, without the empty pieces
get_preloaded_libraries(libs_str) ==
    {trim(piece) : piece \in Range(split(libs_str, ","))} \ {<<>>}

\* the part of a version before its first dot
major_part(version) == split(version, ".")[1]

\* validate.rs 236-332 check_extension_compatibility
check_extension_compatibility(w) ==
    LET source_extensions == get_installed_extensions(w.source_extensions)
        target_preloaded == get_preloaded_libraries(w.target_preloaded)
        target_ext(e) == {t \in w.target_available : t.name = e.name}
        missing == {e \in source_extensions : target_ext(e) = {}}
        not_preloaded == {e \in source_extensions \ missing :
                             /\ requires_preload(e.name)
                             /\ <<e.name>> \notin target_preloaded}
        mismatched == {e \in source_extensions \ missing :
                          \E t \in target_ext(e) :
                              /\ IsSome(t.default_version)
                              /\ major_part(e.version)
                                    # major_part(Unwrap(t.default_version))}
    IN  IF source_extensions = {} THEN [ok |-> TRUE, warnings |-> {}]
        ELSE [ok |-> missing = {} /\ not_preloaded = {},
              warnings |-> IF mismatched = {} THEN {} ELSE {"extension_version"}]

\* a step whose query can fail and whose answer is then judged
FailsOr(ok) == IF ok THEN MayFail ELSE {"err"}

\* validate letting an empty list pass with a warning
validate_plan_warning_only(c) ==
    discover(c, "return") \o <<Step("connect_target", None, MayFail)>>

\* validate.rs validate
validate_plan(c) ==
    <<Step("check_required_tools", None, Decide(check_required_tools)),
      Step("validate_connection_string", None,
           Decide(/\ validate_connection_string(Render(c.source))
                  /\ validate_connection_string(Render(c.target))))>>
        \o discover(c, "err")
        \o <<Step("connect_target", None, MayFail),
             Step("check_source_privileges", None,
                  FailsOr(c.world.source_privs.has_replication
                             \/ c.world.source_privs.is_superuser)),
             Step("check_target_privileges", None,
                  FailsOr(c.world.target_privs.has_create_db
                             \/ c.world.target_privs.is_superuser)),
             Step("get_pg_version", None,
                  FailsOr(get_pg_version(server_version(c.world.source_version)).major
                             = get_pg_version(server_version(c.world.target_version)).major)),
             Step("check_extension_compatibility", None,
                  FailsOr(check_extension_compatibility(c.world).ok))>>

\* validate.rs 169-171, 302-305: what a validate that succeeds warned about
validate_warnings(c) ==
    (IF ~c.world.target_privs.has_create_role /\ ~c.world.target_privs.is_superuser
     THEN {"create_role"} ELSE {})
        \cup check_extension_compatibility(c.world).warnings

\* a sync that subscribes before it publishes
sync_plan_subscription_first(c) ==
    discover(c, "return")
        \o FlattenSeq([i \in 1..Len(databases(c)) |->
              LET db == Some(databases(c)[i])
              IN  <<Step("connect_source_db", db, MayFail),
                    Step("connect_target_db", db, MayFail),
                    Step("create_subscription", db, MayFail),
                    Step("create_publication", db, MayFail),
                    Step("wait_for_sync", db, MayFail)>>])

\* sync.rs sync
sync_plan(c) ==
    discover(c, "return")
        \o FlattenSeq([i \in 1..Len(databases(c)) |->
              LET db == Some(databases(c)[i])
              IN  <<Step("connect_source_db", db, MayFail),
                    Step("connect_target_db", db, MayFail),
                    Step("create_publication", db, MayFail),
                    Step("create_subscription", db, MayFail),
                    Step("wait_for_sync", db, MayFail)>>])

\* status.rs status
status_plan(c) ==
    discover(c, "return")
        \o <<Step("connect_target", None, MayFail)>>
        \o FlattenSeq([i \in 1..Len(databases(c)) |->
              LET db == Some(databases(c)[i])
              IN  <<Step("get_replication_lag", db, MayFail),
                    Step("get_subscription_status", db, MayFail),
                    Step("is_replication_caught_up", db, {"ok"})>>])

\* checksum.rs 96-100: the checksum column is NULL for a table without rows
\* and is then replaced by this word
EmptyChecksum == <<"e", "m", "p", "t", "y">>

\* checksum.rs 77: md5() returns 32 hexadecimal digits
Md5Len == 32

\* the digest of the rows whose concatenation is data
md5(data) == Repeat(data, Md5Len)

\* one side of a table: whether its queries succeed, its rows, and the
\* concatenation of its rows as far as the digest tells it apart
TableContents ==
    {[readable |-> FALSE, rows |-> 0, data |-> "-"],
     [readable |-> TRUE, rows |-> 0, data |-> "-"],
     [readable |-> TRUE, rows |-> 1, data |-> "a"],
     [readable |-> TRUE, rows |-> 1, data |-> "b"],
     [readable |-> TRUE, rows |-> 2, data |-> "a"]}

\* checksum.rs 33-111 compute_table_checksum
compute_table_checksum(t) ==
    IF ~t.readable THEN Err("query")
    ELSE Ok([checksum |-> IF t.rows = 0 THEN EmptyChecksum ELSE md5(t.data),
             row_count |-> t.rows])

\* checksum.rs 114-142 compare_tables
compare_tables(pair) ==
    LET source_result == compute_table_checksum(pair.source)
        target_result == compute_table_checksum(pair.target)
    IN  IF ~source_result.ok THEN source_result
        ELSE IF ~target_result.ok THEN target_result
        ELSE Ok([source_checksum |-> source_result.val.checksum,
                 target_checksum |-> target_result.val.checksum,
                 source_row_count |-> source_result.val.row_count,
                 target_row_count |-> target_result.val.row_count,
                 matches |-> source_result.val.checksum
                                = target_result.val.checksum])

\* checksum.rs 19-24 ChecksumResult::is_valid
is_valid(r) == r.matches /\ r.source_row_count = r.target_row_count

\* verify.rs 237, 254, 256: the digits of a checksum the log lines show
ShownDigits == 8

\* &s[..n]: the first n characters, and a panic (None) when s is shorter
slice_to(s, n) == IF n <= Len(s) THEN Some(SubSeq(s, 1, n)) ELSE None

\* main.rs 168-172: the levels RUST_LOG can leave on; info is the default
LogLevels == {"info", "warn", "off"}

\* the arguments of a log line are evaluated only when its level is on
enabled(level, max) ==
    CASE max = "info" -> TRUE
      [] max = "warn" -> level \in {"warn", "error"}
      [] OTHER -> FALSE

\* verify.rs 228-268: what one comparison adds to the counts, or the panic of
\* the slice in its log line
count_result(compared, log) ==
    IF ~compared.ok THEN "mismatch"
    ELSE IF is_valid(compared.val)
    THEN IF /\ enabled("info", log)
            /\ ~IsSome(slice_to(compared.val.source_checksum, ShownDigits))
         THEN "panic" ELSE "match"
    ELSE IF compared.val.matches THEN "mismatch"
    ELSE IF /\ enabled("error", log)
            /\ \/ ~IsSome(slice_to(compared.val.source_checksum, ShownDigits))
               \/ ~IsSome(slice_to(compared.val.target_checksum, ShownDigits))
         THEN "panic" ELSE "mismatch"

NoCounts == [tables |-> 0, matches |-> 0, mismatches |-> 0, panicked |-> FALSE]

\* verify.rs 224-268: the loop over the results of one database, in the order
\* the comparisons completed
RECURSIVE count_results(_, _, _)
count_results(counts, results, log) ==
    IF results = <<>> \/ counts.panicked THEN counts
    ELSE LET counted == count_result(Head(results), log)
         IN  count_results(
                 [counts EXCEPT !.matches = @ + (IF counted = "match" THEN 1 ELSE 0),
                                !.mismatches = @ + (IF counted = "mismatch" THEN 1 ELSE 0),
                                !.panicked = counted = "panic"],
                 Tail(results), log)

\* the orders in which n comparisons can complete
CompletionOrders(n) == {f \in [1..n -> 1..n] : \A i, j \in 1..n : f[i] = f[j] => i = j}

\* verify.rs 201-219: the results of one database's tables as buffer_unordered
\* hands them over
verification_results(tables, order) ==
    [i \in 1..Len(tables) |-> compare_tables(tables[order[i]])]

\* verify.rs 221-281: one database's counts
db_counts(c, db, order) ==
    LET tables == c.world.tables[db]
        counted == count_results(NoCounts, verification_results(tables, order[db]),
                                 c.world.log)
    IN  [counted EXCEPT !.tables = Len(tables)]

\* verify.rs 110-281: the totals after the databases dbs, added to totals
RECURSIVE verify_totals(_, _, _, _)
verify_totals(totals, c, dbs, order) ==
    IF dbs = <<>> \/ totals.panicked THEN totals
    ELSE LET db == db_counts(c, Head(dbs), order)
         IN  verify_totals([tables |-> totals.tables + db.tables,
                            matches |-> totals.matches + db.matches,
                            mismatches |-> totals.mismatches + db.mismatches,
                            panicked |-> db.panicked],
                           c, Tail(dbs), order)

\* verify.rs verify; order: the order in which each database's comparisons
\* complete. A database whose table list is empty is passed over.
verify_plan(c, order) ==
    discover(c, "return")
        \o FlattenSeq([i \in 1..Len(databases(c)) |->
              LET name == databases(c)[i]
                  db == Some(name)
              IN  <<Step("connect_source_db", db, MayFail),
                    Step("connect_target_db", db, MayFail),
                    Step("list_tables", db, MayFail)>>
                  \o (IF c.world.tables[name] = <<>> THEN <<>>
                      ELSE <<Step("connect_source_db", db, MayFail),
                             Step("connect_target_db", db, MayFail),
                             Step("compare_tables", db, {"ok"}),
                             Step("count_results", db,
                                  IF db_counts(c, name, order).panicked
                                  THEN {"panic"} ELSE {"ok"})>>)])
        \o <<Step("report_mismatches", None,
                  Decide(verify_totals(NoCounts, c, databases(c), order).mismatches
                            = 0))>>

CmdNames == {"validate", "sync", "status", "verify"}

CmdConfigs ==
    [name : CmdNames, source : {SourceUrl}, target : TargetUrls, filter : Filters]

\* panicked: the command did not return at all
NoCmdResult ==
    [done |-> FALSE, ok |-> FALSE, early |-> FALSE, panicked |-> FALSE, at |-> "-"]

\* what status reads for one database: the rows of get_replication_lag, the
\* rows of get_subscription_status, and the rows is_replication_caught_up
\* reads in a query of its own (None: that query failed)
StatusObservations ==
    [source_stats : {<<>>, <<[replay_lag_ms |-> Some(0)]>>},
     target_stats : {<<>>, <<[state |-> "r"]>>},
     recheck : {None} \cup {Some(rows) : rows \in
                    {<<>>, <<[replay_lag_ms |-> Some(0)]>>,
                     <<[replay_lag_ms |-> Some(1001)]>>}}]

\* the sequences over S of length n at most
RECURSIVE SeqsUpTo(_, _)
SeqsUpTo(S, n) ==
    IF n = 0 THEN {<<>>}
    ELSE LET shorter == SeqsUpTo(S, n - 1)
         IN  shorter \cup {Append(s, x) : s \in {t \in shorter : Len(t) = n - 1},
                                           x \in S}

\* the tables of one database that verify compares: source and target side
MaxTables == 2

TablePairs ==
    [source : {[readable |-> TRUE, rows |-> 0, data |-> "-"],
               [readable |-> TRUE, rows |-> 1, data |-> "a"]},
     target : TableContents]

ComparedTables == SeqsUpTo(TablePairs, MaxTables)

\* no table, one table that is the same on both sides, one that differs
PlainTableLists ==
    {<<>>,
     <<[source |-> [readable |-> TRUE, rows |-> 1, data |-> "a"],
        target |-> [readable |-> TRUE, rows |-> 1, data |-> "a"]]>>,
     <<[source |-> [readable |-> TRUE, rows |-> 1, data |-> "a"],
        target |-> [readable |-> TRUE, rows |-> 1, data |-> "b"]]>>}

\* what validate reads from the two servers
ValidateWorlds ==
    [source_privs : [has_replication : BOOLEAN, is_superuser : BOOLEAN],
     target_privs : [has_create_db : BOOLEAN, has_create_role : BOOLEAN,
                     is_superuser : BOOLEAN],
     source_version : [major : {16}, kind : {"release", "beta"}],
     target_version : {[major |-> 16, kind |-> "release"],
                       [major |-> 17, kind |-> "release"],
                       [major |-> 17, kind |-> "beta"]},
     source_extensions :
         {{[name |-> "plpgsql", version |-> <<"1", ".", "0">>]},
          {[name |-> "plpgsql", version |-> <<"1", ".", "0">>],
           [name |-> "pgcrypto", version |-> <<"1", ".", "3">>]},
          {[name |-> "plpgsql", version |-> <<"1", ".", "0">>],
           [name |-> "pg_cron", version |-> <<"1", ".", "3">>]}},
     target_available :
         {{}} \cup {{[name |-> n, default_version |-> v] : n \in {"pgcrypto", "pg_cron"}} :
                       v \in {None, Some(<<"1", ".", "6">>), Some(<<"2", ".", "0">>)}},
     target_preloaded : {<<>>, <<"x", ",", " ", "pg_cron">>}]

\* servers on which every check of validate passes, or the source role may
\* not replicate
PlainValidateWorlds ==
    {w \in ValidateWorlds :
        /\ w.source_privs.is_superuser = FALSE
        /\ w.target_privs = [has_create_db |-> TRUE, has_create_role |-> TRUE,
                             is_superuser |-> FALSE]
        /\ w.source_version.kind = "release"
        /\ w.target_version = [major |-> 16, kind |-> "release"]
        /\ Cardinality(w.source_extensions) = 1
        /\ w.target_available = {}
        /\ w.target_preloaded = <<>>}

\* the tables of each database verify looks at: the first database has its
\* tables from First, every other one from PlainTableLists
VerifyTables(dbs, First) ==
    LET rest == IF dbs = <<>> THEN {} ELSE Range(dbs) \ {dbs[1]}
    IN  {[d \in Range(dbs) |-> IF d = dbs[1] THEN f ELSE g[d]] :
            f \in First, g \in [rest -> PlainTableLists]}

\* what the servers hold when a command is called, as far as it reads it
Worlds(c) ==
    IF c.name = "status" THEN [Range(databases(c)) -> StatusObservations]
    ELSE IF c.name = "validate" THEN ValidateWorlds
    ELSE IF c.name = "verify"
    THEN [tables : VerifyTables(databases(c), ComparedTables), log : LogLevels]
    ELSE {"-"}

\* the same for every database
PlainWorlds(c) ==
    IF c.name = "status"
    THEN {w \in Worlds(c) : \A d, e \in DOMAIN w : w[d] = w[e]}
    ELSE IF c.name = "verify"
    THEN [tables : VerifyTables(databases(c), PlainTableLists), log : {"info"}]
    ELSE IF c.name = "validate" THEN PlainValidateWorlds
    ELSE Worlds(c)

\* nothing has been printed as the summary of the run
NoReport == [summary |-> "-", said |-> <<>>]

CmdCall(c, world) ==
    [name |-> c.name, source |-> c.source, target |-> c.target,
     filter |-> c.filter, world |-> world, trace |-> <<>>,
     result |-> NoCmdResult, report |-> NoReport]

\* init is the machine above; the other commands start with nothing done
InitCall == [name |-> "init"]

CmdInit ==
    /\ \/ cmd = InitCall /\ InitStart
       \/ /\ \E c \in CmdConfigs : \E w \in PlainWorlds(c) : cmd = CmdCall(c, w)
          /\ InitNotCalled
          /\ installed \in ToolSets
    /\ UrlIdle /\ ToolIdle /\ SqlIdle /\ RetryIdle /\ WaitIdle /\ LagIdle /\ TempIdle /\ CallIdle

\* the steps taken and the result when the command follows plan up to step n
\* and that step ends in outcome o
Ran(plan, n, o) ==
    [trace |-> [i \in 1..n |-> [step |-> plan[i].step, db |-> plan[i].db]],
     result |-> [done |-> TRUE, ok |-> o \in {"ok", "return"},
                 early |-> o = "return", panicked |-> o = "panic",
                 at |-> plan[n].step]]

\* the ways a plan can run: every step before the last one taken went on, and
\* the last one taken ended the command or was the last of the plan
Runs(plan) ==
    {Ran(plan, n, o) : <<n, o>> \in
        {no \in (1..Len(plan)) \X {"ok", "err", "return", "panic"} :
            /\ no[2] \in plan[no[1]].outcomes
            /\ \A i \in 1..(no[1] - 1) : "ok" \in plan[i].outcomes
            /\ (no[2] = "ok" => no[1] = Len(plan))}}

cmdOthers == <<urlVars, toolVars, initVars, sql, retry, wait, lag, temp, fncall>>

CmdValidate ==
    /\ cmd.name = "validate"
    /\ ~cmd.result.done
    /\ \E r \in Runs(validate_plan(cmd)) :
          cmd' = [cmd EXCEPT !.trace = r.trace, !.result = r.result,
                             !.report = IF r.result.ok
                                        THEN [summary |-> "validated",
                                              warnings |-> validate_warnings(cmd)]
                                        ELSE NoReport]
    /\ UNCHANGED cmdOthers

CmdSync ==
    /\ cmd.name = "sync"
    /\ ~cmd.result.done
    /\ \E r \in Runs(sync_plan(cmd)) :
          cmd' = [cmd EXCEPT !.trace = r.trace, !.result = r.result]
    /\ UNCHANGED cmdOthers

\* status.rs 180-261: the two flags after one more database
status_flags(flags, seen) ==
    LET caught_up == IF IsSome(seen.recheck)
                     THEN is_replication_caught_up(Unwrap(seen.recheck))
                     ELSE FALSE
    IN  [all_caught_up |-> /\ flags.all_caught_up
                           /\ seen.source_stats # <<>>
                           /\ seen.target_stats # <<>>
                           /\ caught_up,
         any_active |-> flags.any_active \/ seen.source_stats # <<>>,
         said |-> Append(flags.said, caught_up)]

RECURSIVE status_loop(_, _, _)
status_loop(flags, dbs, world) ==
    IF dbs = <<>> THEN flags
    ELSE status_loop(status_flags(flags, world[Head(dbs)]), Tail(dbs), world)

\* a summary that goes by the per-database verdicts alone
status_summary_by_verdicts(c) ==
    LET flags == status_loop([all_caught_up |-> TRUE, any_active |-> FALSE,
                              said |-> <<>>], databases(c), c.world)
    IN  [summary |-> IF (\A i \in 1..Len(flags.said) : flags.said[i])
                        /\ flags.any_active
                     THEN "caught_up"
                     ELSE IF ~flags.any_active THEN "inactive" ELSE "lagging",
         said |-> flags.said]

\* status.rs 146-282: the overall summary and what was said of each database
status_summary(c) ==
    LET flags == status_loop([all_caught_up |-> TRUE, any_active |-> FALSE,
                              said |-> <<>>], databases(c), c.world)
    IN  [summary |-> IF flags.all_caught_up /\ flags.any_active
                     THEN "caught_up"
                     ELSE IF ~flags.any_active THEN "inactive" ELSE "lagging",
         said |-> flags.said]

CmdStatus ==
    /\ cmd.name = "status"
    /\ ~cmd.result.done
    /\ \E r \in Runs(status_plan(cmd)) :
          cmd' = [cmd EXCEPT !.trace = r.trace, !.result = r.result,
                             !.report = IF r.result.ok /\ ~r.result.early
                                        THEN status_summary(cmd) ELSE NoReport]
    /\ UNCHANGED cmdOthers

\* verify.rs 283-316: the totals and what verify says about them
verify_report(c, order) ==
    LET totals == verify_totals(NoCounts, c, databases(c), order)
    IN  [summary |-> IF totals.panicked THEN "panicked"
                     ELSE IF totals.mismatches > 0 THEN "failed" ELSE "verified",
         tables |-> totals.tables,
         matches |-> totals.matches,
         mismatches |-> totals.mismatches]

CmdVerify ==
    /\ cmd.name = "verify"
    /\ ~cmd.result.done
    /\ \E order \in [Range(databases(cmd)) ->
                        UNION {CompletionOrders(n) : n \in 0..MaxTables}] :
          /\ \A d \in DOMAIN order :
                order[d] \in CompletionOrders(Len(cmd.world.tables[d]))
          /\ \E r \in Runs(verify_plan(cmd, order)) :
                cmd' = [cmd EXCEPT
                           !.trace = r.trace, !.result = r.result,
                           !.report = IF r.result.at \in {"count_results",
                                                          "report_mismatches"}
                                      THEN verify_report(cmd, order)
                                      ELSE NoReport]
    /\ UNCHANGED cmdOthers

CmdNext ==
    \/ CmdValidate
    \/ CmdSync
    \/ CmdStatus
    \/ CmdVerify
    \/ Next

SpecCmd == CmdInit /\ [][CmdNext]_vars

\* the steps of init up to the listing of the databases
InitOpening ==
    {"validate", "create_temp_dir", "checkpoint_path", "dump_globals",
     "restore_globals", "connect_source", "list_databases"}

\* init found no database to replicate: it goes no further than the listing,
\* and unless the listing itself failed it returns success from there
InitStopsOnEmptyList ==
    databases(cfg) = <<>> =>
        /\ pc \in InitOpening \cup {"done", "killed"}
        /\ pc \in {"done", "killed"} => result.at \in InitOpening
        /\ (pc = "done" /\ result.at = "list_databases" /\ ~result.ok)
              => result.kind = "list_databases"
        /\ ghost.created = {} /\ ghost.finished = {} /\ ghost.skipped = {}

\* the command got as far as filtering the list of databases
Filtered(c) == \E i \in 1..Len(c.trace) : c.trace[i].step = "filter_databases"

\* a command other than init found no database to replicate: filtering is
\* its last step, validate ends in an error, the others in an early success
CmdStopsOnEmptyList ==
    (cmd.result.done /\ Filtered(cmd) /\ databases(cmd) = <<>>) =>
        /\ cmd.trace[Len(cmd.trace)].step = "filter_databases"
        /\ \A i \in 1..Len(cmd.trace) : cmd.trace[i].db = None
        /\ cmd.result.at = "filter_databases"
        /\ IF cmd.name = "validate"
           THEN ~cmd.result.ok
           ELSE cmd.result.ok /\ cmd.result.early

\* C15: with no database left after the filter, validate returns an error;
\* init, sync, status and verify return success early, without a step on any
\* single database.
C15_EmptyDatabaseList ==
    IF cmd.name = "init" THEN InitStopsOnEmptyList ELSE CmdStopsOnEmptyList

\* sync found nothing to replicate and said so
C15_Witness ==
    /\ cmd.name = "sync"
    /\ cmd.result.done
    /\ databases(cmd) = <<>>
    /\ Filtered(cmd)
    /\ cmd.result.ok
    /\ cmd.result.early

\* ---------------------------------------------------------------------------
\* Connecting and retrying (SpecRetry): utils.rs retry_with_backoff step by
\* step, connection.rs connect_with_retry, and the way each command opens its
\* connections.  Delays are in seconds.

\* largest max_retries a direct call of retry_with_backoff is given
MaxRetries == 3

\* connection.rs connect_with_retry: "Max 3 retries"
ConnectMaxRetries == 3

\* connection.rs connect_with_retry: "Start with 1 second delay"
ConnectInitialDelay == 1

InitialDelays == {1, 3}

\* how connect can fail: the server is not reachable yet, the password is
\* rejected, the connection string does not parse
TransientErrors == {"connection_refused"}

FatalErrors == {"authentication_failed", "invalid_connection_string"}

ConnectErrors == TransientErrors \cup FatalErrors

\* the commands, which open their connections with connect, and the database
\* size estimate of main.rs, which opens its connection with
\* connect_with_retry
Phases == {"validate", "init", "sync", "status", "verify"}

connection_opener(site) ==
    IF site \in Phases THEN "connect" ELSE "connect_with_retry"

RetryCall(site, opener, max_retries, initial_delay) ==
    [site |-> site, opener |-> opener, max_retries |-> max_retries,
     initial_delay |-> initial_delay, pc |-> "call", attempt |-> 0,
     delay |-> initial_delay, outcomes |-> <<>>, waits |-> <<>>,
     last_error |-> None, result |-> None]

RetryInit ==
    /\ retry \in
          {RetryCall(site, connection_opener(site), ConnectMaxRetries,
                     ConnectInitialDelay) : site \in Phases \cup {"estimate_sizes"}}
          \cup {RetryCall("caller", "retry_with_backoff", n, d) :
                    n \in 0..MaxRetries, d \in InitialDelays}
    /\ UrlIdle /\ ToolIdle /\ InitIdle /\ SqlIdle /\ CmdIdle /\ WaitIdle /\ LagIdle /\ TempIdle /\ CallIdle

retryOthers == <<urlVars, toolVars, initVars, sql, cmd, wait, lag, temp, fncall>>

\* connection.rs connect, called as it is: one attempt
RetryConnect ==
    /\ retry.opener = "connect"
    /\ retry.pc = "call"
    /\ \E outcome \in {"ok"} \cup ConnectErrors :
          retry' = [retry EXCEPT
                       !.pc = "done",
                       !.outcomes = Append(@, outcome),
                       !.result = Some(IF outcome = "ok" THEN Ok("client")
                                       ELSE Err(outcome))]
    /\ UNCHANGED retryOthers

\* a loop that waits the same time before every retry
RetrySleepFlat ==
    /\ retry.pc = "sleep"
    /\ retry' = [retry EXCEPT !.pc = "call",
                              !.waits = Append(@, retry.delay),
                              !.attempt = @ + 1]
    /\ UNCHANGED retryOthers

\* utils.rs 172-189: one round of the loop up to the sleep: call the
\* operation, return its success, keep its error
RetryAttempt ==
    /\ retry.opener # "connect"
    /\ retry.pc = "call"
    /\ \E outcome \in {"ok"} \cup ConnectErrors :
          retry' =
              IF outcome = "ok"
              THEN [retry EXCEPT !.pc = "done",
                                 !.outcomes = Append(@, outcome),
                                 !.result = Some(Ok("client"))]
              ELSE IF retry.attempt < retry.max_retries
              THEN [retry EXCEPT !.pc = "sleep",
                                 !.outcomes = Append(@, outcome),
                                 !.last_error = Some(outcome)]
              ELSE [retry EXCEPT !.pc = "done",
                                 !.outcomes = Append(@, outcome),
                                 !.last_error = Some(outcome),
                                 !.result = Some(Err(outcome))]
    /\ UNCHANGED retryOthers

\* utils.rs 185-186: sleep(delay), double the delay, next round
RetrySleep ==
    /\ retry.pc = "sleep"
    /\ retry' = [retry EXCEPT !.pc = "call",
                              !.waits = Append(@, retry.delay),
                              !.delay = @ * 2,
                              !.attempt = @ + 1]
    /\ UNCHANGED retryOthers

RetryNext ==
    \/ RetryConnect
    \/ RetryAttempt
    \/ RetrySleep

SpecRetry == RetryInit /\ [][RetryNext]_vars

RECURSIVE Pow2(_)
Pow2(n) == IF n = 0 THEN 1 ELSE 2 * Pow2(n - 1)

Calls == Len(retry.outcomes)

RetryDone == retry.pc = "done"

C17_FatalErrorsNotRetried ==
    (retry.opener # "connect" /\ Calls > 0 /\ retry.outcomes[Calls] \in FatalErrors)
        => RetryDone

\* C18: a connection a command opens goes through the retry wrapper with its
\* defaults: when the server keeps refusing, the command has tried 4 times
\* and waited 1, 2 and 4 seconds before it gives up.
C18_CommandsConnectWithRetry ==
    (/\ retry.site \in Phases
     /\ RetryDone
     /\ \A i \in 1..Calls : retry.outcomes[i] \in TransientErrors)
        => /\ Calls = ConnectMaxRetries + 1
           /\ retry.waits = <<1, 2, 4>>

\* ---------------------------------------------------------------------------
\* Waiting for the initial sync (SpecWait): subscription.rs wait_for_sync.
\* Time is in seconds since the call.

\* longest timeout a call is given
MaxTimeout == 5

\* the pause between two polls
PollInterval == 2

\* srsubstate: ready, initializing, copying data, and a state the code does
\* not know
SubStates == {"r", "i", "d", "?"}

\* how long one query of pg_stat_subscription may take
QueryTimes == {0, 1, 2}

WaitCall(timeout_secs) ==
    [timeout |-> timeout_secs, pc |-> "poll", clock |-> 0, log |-> <<>>,
     result |-> None]

WaitInit ==
    /\ wait \in {WaitCall(t) : t \in 0..MaxTimeout}
    /\ UrlIdle /\ ToolIdle /\ InitIdle /\ SqlIdle /\ CmdIdle /\ RetryIdle /\ LagIdle /\ TempIdle /\ CallIdle

waitOthers == <<urlVars, toolVars, initVars, sql, cmd, retry, lag, temp, fncall>>

timed_out_inclusive(elapsed, timeout) == elapsed >= timeout

\* line 181: start.elapsed() > timeout
timed_out(elapsed, timeout) == elapsed > timeout

\* what the query of one poll brought back: a row with the state, or an error
QueryFailed == "query failed"

\* lines 141-198, one pass of the loop in the call w whose query returned at
\* the instant now with answer: a failed query returns its error, state r
\* returns success; otherwise give up when the time is over, else go to sleep
polled(w, now, answer) ==
    LET seen == Append(w.log, [kind |-> "poll", state |-> answer, at |-> now])
    IN  IF answer = QueryFailed
        THEN [w EXCEPT !.pc = "done", !.clock = now,
                       !.result = Some(Err([kind |-> "query"]))]
        ELSE IF answer = "r"
        THEN [w EXCEPT !.pc = "done", !.clock = now,
                       !.log = seen, !.result = Some(Ok("ready"))]
        ELSE IF timed_out(now, w.timeout)
        THEN [w EXCEPT !.pc = "done", !.clock = now, !.log = seen,
                       !.result = Some(Err([kind |-> "timeout",
                                            state |-> answer,
                                            after |-> w.timeout]))]
        ELSE [w EXCEPT !.pc = "sleep", !.clock = now, !.log = seen]

\* one poll with any answer after any time the query may take
WaitPoll ==
    /\ wait.pc = "poll"
    /\ \E took \in QueryTimes, answer \in SubStates \cup {QueryFailed} :
          wait' = polled(wait, wait.clock + took, answer)
    /\ UNCHANGED waitOthers

\* line 200: sleep(2 s)
WaitSleep ==
    /\ wait.pc = "sleep"
    /\ wait' = [wait EXCEPT !.pc = "poll",
                            !.clock = @ + PollInterval,
                            !.log = Append(@, [kind |-> "sleep", state |-> "-",
                                               at |-> wait.clock + PollInterval])]
    /\ UNCHANGED waitOthers

WaitNext ==
    \/ WaitPoll
    \/ WaitSleep

SpecWait == WaitInit /\ [][WaitNext]_vars

WaitDone == wait.pc = "done"

LastSeen == wait.log[Len(wait.log)]

\* C19: wait_for_sync returns success only right after a poll that saw state
\* r, and on the first poll that sees it; it returns the timeout error only
\* right after a poll that saw another state more than timeout seconds after
\* the start, and the error names that state; between two polls lies one wait
\* of 2 seconds.
C19_WaitForSync ==
    /\ \A i \in 1..Len(wait.log) :
          (wait.log[i].kind = "poll" /\ wait.log[i].state = "r")
              => (i = Len(wait.log) /\ WaitDone /\ Unwrap(wait.result).ok)
    /\ (WaitDone /\ Unwrap(wait.result).ok)
          => (wait.log # <<>> /\ LastSeen.kind = "poll" /\ LastSeen.state = "r")
    /\ (WaitDone /\ ~Unwrap(wait.result).ok
            /\ Unwrap(wait.result).err.kind = "timeout")
          => /\ wait.log # <<>>
             /\ LastSeen.kind = "poll"
             /\ LastSeen.state # "r"
             /\ LastSeen.at > wait.timeout
             /\ Unwrap(wait.result).err.state = LastSeen.state
    /\ \A i \in 1..Len(wait.log) :
          IF i % 2 = 1
          THEN wait.log[i].kind = "poll"
          ELSE /\ wait.log[i].kind = "sleep"
               /\ wait.log[i].at >= wait.log[i - 1].at + 2

\* the time ran out while the subscription was still copying, after a poll
\* that saw another state
C19_Witness ==
    /\ WaitDone
    /\ ~Unwrap(wait.result).ok
    /\ Unwrap(wait.result).err.kind = "timeout"
    /\ Unwrap(wait.result).err.state = "d"
    /\ Len(wait.log) >= 3
    /\ wait.log[1].state = "i"

\* ---------------------------------------------------------------------------
\* Is replication caught up (SpecLag): monitor.rs is_replication_caught_up on
\* the rows get_replication_lag returns.

\* most rows of pg_stat_replication in one answer
MaxSlots == 3

\* replay_lag_ms is an Option<i64>: NULL, a negative number, nothing, the
\* limit and one more
LagValues == {None, Some(0 - 1), Some(0), Some(CaughtUpLimitMs),
              Some(CaughtUpLimitMs + 1)}

SlotStats == [replay_lag_ms : LagValues]

LagInit ==
    /\ lag \in {[stats |-> s, result |-> None] : s \in SeqsUpTo(SlotStats, MaxSlots)}
    /\ UrlIdle /\ ToolIdle /\ InitIdle /\ SqlIdle /\ CmdIdle /\ RetryIdle /\ WaitIdle
    /\ TempIdle /\ CallIdle

lagOthers == <<urlVars, toolVars, initVars, sql, cmd, retry, wait, temp, fncall>>

\* lines 145-164: the query fails, or its rows decide
LagCheck ==
    /\ lag.result = None
    /\ \/ lag' = [lag EXCEPT !.result = Some(Err("query"))]
       \/ lag' = [lag EXCEPT !.result = Some(Ok(is_replication_caught_up(lag.stats)))]
    /\ UNCHANGED lagOthers

LagNext == LagCheck

SpecLag == LagInit /\ [][LagNext]_vars

LagAnswered == IsSome(lag.result) /\ Unwrap(lag.result).ok

SaysCaughtUp == Unwrap(lag.result).val

StatusInit ==
    /\ \E c \in {k \in CmdConfigs : k.name = "status"} :
       \E w \in Worlds(c) : cmd = CmdCall(c, w)
    /\ InitNotCalled
    /\ installed = AllTools
    /\ UrlIdle /\ ToolIdle /\ SqlIdle /\ RetryIdle /\ WaitIdle /\ LagIdle /\ TempIdle /\ CallIdle

StatusNext == CmdStatus

SpecStatus == StatusInit /\ [][StatusNext]_vars

StatusReported == cmd.report.summary # "-"

\* the databases status looked at, in order
Looked == databases(cmd)

HadActiveSlot(i) == cmd.world[Looked[i]].source_stats # <<>>

HadSubscription(i) == cmd.world[Looked[i]].target_stats # <<>>

\* C21: status says "all caught up" exactly when it found every database
\* caught up and at least one with an active slot; otherwise it says
\* "inactive" when no database has an active slot and "lagging" in the
\* remaining cases.
C21_SummaryByVerdicts ==
    StatusReported =>
        LET every_caught_up == \A i \in 1..Len(Looked) : cmd.report.said[i]
            any_active == \E i \in 1..Len(Looked) : HadActiveSlot(i)
        IN  cmd.report.summary =
                IF every_caught_up /\ any_active THEN "caught_up"
                ELSE IF ~any_active THEN "inactive" ELSE "lagging"

\* C21 (amended): status says "all caught up" exactly when every database had
\* an active slot when its lag was read, has its subscription on the target
\* and was found caught up; otherwise it says "inactive" when no database had
\* an active slot and "lagging" in the remaining cases.
C21_SummaryByVerdictsAndSlots ==
    StatusReported =>
        LET every_caught_up ==
                \A i \in 1..Len(Looked) :
                    HadActiveSlot(i) /\ HadSubscription(i) /\ cmd.report.said[i]
            any_active == \E i \in 1..Len(Looked) : HadActiveSlot(i)
        IN  cmd.report.summary =
                IF every_caught_up THEN "caught_up"
                ELSE IF ~any_active THEN "inactive" ELSE "lagging"

\* every database has an active slot and is found caught up, and the target
\* has no subscription for the first: the summary is "lagging"
C21_Witness ==
    /\ StatusReported
    /\ Len(Looked) = 3
    /\ HadActiveSlot(1) /\ ~HadSubscription(1) /\ cmd.report.said[1]
    /\ HadActiveSlot(2) /\ HadSubscription(2) /\ cmd.report.said[2]
    /\ HadActiveSlot(3) /\ HadSubscription(3) /\ cmd.report.said[3]
    /\ cmd.report.summary = "lagging"

\* ---------------------------------------------------------------------------
\* The counts of verify (SpecVerify): verify called on tables that are the
\* same on both sides, differ, are empty or cannot be read, with the
\* comparisons completing in any order.

VerifyInit ==
    /\ \E c \in {k \in CmdConfigs : k.name = "verify"} :
       \E w \in Worlds(c) : cmd = CmdCall(c, w)
    /\ InitNotCalled
    /\ installed = AllTools
    /\ UrlIdle /\ ToolIdle /\ SqlIdle /\ RetryIdle /\ WaitIdle /\ LagIdle /\ TempIdle /\ CallIdle

VerifyNext == CmdVerify

SpecVerify == VerifyInit /\ [][VerifyNext]_vars

\* verify went through every database without an error from a connection or
\* a listing
VerifyCompared ==
    /\ cmd.name = "verify"
    /\ cmd.result.done
    /\ cmd.result.at \in {"count_results", "report_mismatches"}

\* all the tables verify compared, whatever the database
AllCompared == FlattenSeq([i \in 1..Len(Looked) |-> cmd.world.tables[Looked[i]]])

\* the two sides can be read, and hashes and row counts are the same
PairMatches(pair) ==
    /\ pair.source.readable /\ pair.target.readable
    /\ pair.source.rows = pair.target.rows
    /\ (pair.source.rows = 0 /\ pair.target.rows = 0)
          \/ (pair.source.rows > 0 /\ pair.target.rows > 0
              /\ pair.source.data = pair.target.data)

NumberMatching == Cardinality({i \in 1..Len(AllCompared) : PairMatches(AllCompared[i])})

\* C22: verify returns the verification error exactly when some compared
\* table is not valid and success otherwise; the matches are the tables whose
\* hashes and row counts are both the same, matches and mismatches add up to
\* the tables compared, in whatever order the comparisons completed.
C22_VerifyCountsAndResult ==
    VerifyCompared =>
        /\ ~cmd.result.panicked
        /\ cmd.result.ok <=> NumberMatching = Len(AllCompared)
        /\ cmd.report.matches = NumberMatching
        /\ cmd.report.matches + cmd.report.mismatches = Len(AllCompared)

\* the same as long as no compared table is without rows on either side
C22_VerifyCountsWithoutEmptyTables ==
    (/\ VerifyCompared
     /\ \A i \in 1..Len(AllCompared) :
           AllCompared[i].source.rows > 0 /\ AllCompared[i].target.rows > 0)
        => /\ ~cmd.result.panicked
           /\ cmd.result.ok <=> NumberMatching = Len(AllCompared)
           /\ cmd.report.matches = NumberMatching
           /\ cmd.report.matches + cmd.report.mismatches = Len(AllCompared)

\* a table without rows on both sides, logging at the default level: verify
\* panics
C22_PanicOnEmptyTable ==
    /\ VerifyCompared
    /\ cmd.world.log = "info"
    /\ Len(AllCompared) = 1
    /\ AllCompared[1].source.rows = 0 /\ AllCompared[1].target.rows = 0
    /\ AllCompared[1].source.readable /\ AllCompared[1].target.readable
    /\ cmd.result.panicked

\* C23: whenever init returns after it created its managed temp directory,
\* with success, with the early success of an empty database list or with an
\* error, the directory has been removed.
C23_TempDirRemovedOnReturn ==
    (pc = "done" /\ "tempdir" \in ghost.effects) => ~tempDir

\* init returned the error of a later step and its directory is still there
C23_TempDirLeftOnError ==
    /\ pc = "done"
    /\ ~result.ok
    /\ result.at = "dump_globals"
    /\ "tempdir" \in ghost.effects
    /\ tempDir

\* ---------------------------------------------------------------------------
\* Managed temp storage (SpecTemp): utils.rs create_managed_temp_dir,
\* remove_managed_temp_dir and cleanup_stale_temp_dirs, and the sweep main
\* runs at startup, on a file system with entries of ours and of others.

\* utils.rs 768, 832, 920: what the name of a managed directory starts with
ManagedPrefix == <<"postgres", "-", "seren", "-", "replicator", "-">>

\* main.rs 178: the sweep removes what is older than 24 hours
StaleAfterSecs == 86400

\* std::env::temp_dir() and a directory that is not it
TempRoot == "tmp"

TempDirs == {TempRoot, "home"}

\* names with the prefix, one that stops short of its last dash, one that
\* holds it further in, one without it
TempNames ==
    {ManagedPrefix \o <<"1">>, ManagedPrefix \o <<"2">>,
     <<"postgres", "-", "seren", "-", "replicator">>,
     <<"o">> \o ManagedPrefix, <<"o">>}

\* the names create_managed_temp_dir's timestamp and random number can give
CreatedNames == {ManagedPrefix \o <<"1">>, ManagedPrefix \o <<"2">>}

TempEntries ==
    [dir : {TempRoot}, name : TempNames \ {<<"o">> \o ManagedPrefix}]
        \cup [dir : {"home"}, name : {ManagedPrefix \o <<"1">>}]

\* an entry is not there, or is there and was last modified age seconds ago
TempAges == {0, StaleAfterSecs, StaleAfterSecs + 1}

Absent == [present |-> FALSE, age |-> 0]

EntryStates == {Absent} \cup [present : {TRUE}, age : TempAges]

\* a path: a directory and a final component; Path::file_name gives None for
\* a path that ends in ".."
TempPaths ==
    [dir : TempDirs, name : {Some(n) : n \in TempNames}]
        \cup [dir : TempDirs, name : {None}]

NoTempResult == [op |-> "-", ok |-> FALSE, kind |-> "-", path |-> None]

TempInit ==
    /\ temp \in [fs : [TempEntries -> EntryStates], result : {NoTempResult},
                 log : {{}}, dispatched : {FALSE}]
    /\ \A e \in TempEntries :
          (e.dir # TempRoot \/ ~starts_with(e.name, ManagedPrefix))
              => temp.fs[e] \in {Absent, [present |-> TRUE, age |-> StaleAfterSecs + 1]}
    /\ UrlIdle /\ ToolIdle /\ InitIdle /\ SqlIdle /\ CmdIdle /\ RetryIdle /\ WaitIdle
    /\ LagIdle /\ CallIdle

tempOthers == <<urlVars, toolVars, initVars, sql, cmd, retry, wait, lag, fncall>>

\* a check of the name that lets every name through
any_name(name) == TRUE

\* utils.rs 832, 920: name.starts_with("postgres-seren-replicator-")
is_managed_name(name) == starts_with(name, ManagedPrefix)

\* utils.rs 752-779 create_managed_temp_dir with the name its clock and its
\* random number gave; create_dir_all leaves a directory that is there alone
create_managed_temp_dir(fs, dir_name, fails) ==
    LET temp_path == [dir |-> TempRoot, name |-> dir_name]
    IN  IF fails
        THEN [fs |-> fs,
              result |-> [op |-> "create", ok |-> FALSE, kind |-> "create_dir_all",
                          path |-> None]]
        ELSE [fs |-> IF fs[temp_path].present THEN fs
                     ELSE [fs EXCEPT ![temp_path] = [present |-> TRUE, age |-> 0]],
              result |-> [op |-> "create", ok |-> TRUE, kind |-> "-",
                          path |-> Some(temp_path)]]

\* utils.rs 915-936 remove_managed_temp_dir; fails: remove_dir_all fails
remove_managed_temp_dir(fs, path, fails) ==
    LET refuse(kind) == [fs |-> fs,
                         result |-> [op |-> "remove", ok |-> FALSE, kind |-> kind,
                                     path |-> None]]
        entry == [dir |-> path.dir, name |-> Unwrap(path.name)]
    IN  IF ~IsSome(path.name) THEN refuse("invalid_path")
        ELSE IF ~is_managed_name(Unwrap(path.name)) THEN refuse("refused")
        ELSE IF fails \/ entry \notin TempEntries \/ ~fs[entry].present
        THEN refuse("remove_dir_all")
        ELSE [fs |-> [fs EXCEPT ![entry] = Absent],
              result |-> [op |-> "remove", ok |-> TRUE, kind |-> "-",
                          path |-> Some(entry)]]

\* utils.rs 827-873: the entries of the temp root the sweep removes;
\* no_metadata, not_removable: the entries whose metadata cannot be read and
\* whose removal fails
swept_entries(fs, max_age_secs, no_metadata, not_removable) ==
    {e \in TempEntries :
        /\ e.dir = TempRoot
        /\ fs[e].present
        /\ is_managed_name(e.name)
        /\ e \notin no_metadata
        /\ fs[e].age > max_age_secs
        /\ e \notin not_removable}

\* utils.rs 852-867: the warnings of the sweep
sweep_warnings(fs, max_age_secs, no_metadata, not_removable) ==
    {[warn |-> "metadata", entry |-> Some(e)] : e \in
        {x \in no_metadata : x.dir = TempRoot /\ fs[x].present /\ is_managed_name(x.name)}}
    \cup
    {[warn |-> "remove", entry |-> Some(e)] : e \in
        {x \in not_removable \ no_metadata :
            /\ x.dir = TempRoot /\ fs[x].present /\ is_managed_name(x.name)
            /\ fs[x].age > max_age_secs}}

\* utils.rs 815-888 cleanup_stale_temp_dirs
cleanup_stale_temp_dirs(fs, max_age_secs, root_unreadable, no_metadata, not_removable) ==
    IF root_unreadable
    THEN [fs |-> fs, log |-> {},
          result |-> [op |-> "sweep", ok |-> FALSE, kind |-> "read_dir",
                      path |-> None]]
    ELSE LET gone == swept_entries(fs, max_age_secs, no_metadata, not_removable)
         IN  [fs |-> [e \in TempEntries |-> IF e \in gone THEN Absent ELSE fs[e]],
              log |-> sweep_warnings(fs, max_age_secs, no_metadata, not_removable),
              result |-> [op |-> "sweep", ok |-> TRUE, kind |-> "-", path |-> None]]

\* a start of main that hands the error of the sweep on
startup_propagating(swept) ==
    [dispatched |-> swept.result.ok, log |-> swept.log]

\* main.rs 176-183: the error of the sweep is warned about and main goes on
\* to parse the command line
startup_after_sweep(swept) ==
    [dispatched |-> TRUE,
     log |-> swept.log \cup (IF swept.result.ok THEN {}
                             ELSE {[warn |-> "sweep", entry |-> None]})]

TempCreate ==
    /\ \E dir_name \in CreatedNames, fails \in BOOLEAN :
          LET made == create_managed_temp_dir(temp.fs, dir_name, fails)
          IN  temp' = [temp EXCEPT !.fs = made.fs, !.result = made.result,
                                   !.log = {}]
    /\ UNCHANGED tempOthers

TempRemove ==
    /\ \E path \in TempPaths, fails \in BOOLEAN :
          LET removed == remove_managed_temp_dir(temp.fs, path, fails)
          IN  temp' = [temp EXCEPT !.fs = removed.fs, !.result = removed.result,
                                   !.log = {}]
    /\ UNCHANGED tempOthers

\* the entries the sweep asks the metadata of
ManagedInRoot ==
    {e \in TempEntries : e.dir = TempRoot /\ starts_with(e.name, ManagedPrefix)}

\* main.rs 176-183: the sweep at startup and what main does with its result
TempStartup ==
    /\ \E root_unreadable \in BOOLEAN,
          no_metadata \in SUBSET ManagedInRoot,
          not_removable \in SUBSET ManagedInRoot :
          LET swept == cleanup_stale_temp_dirs(temp.fs, StaleAfterSecs, root_unreadable,
                                               no_metadata, not_removable)
              started == startup_after_sweep(swept)
          IN  temp' = [temp EXCEPT !.fs = swept.fs, !.result = swept.result,
                                   !.log = started.log,
                                   !.dispatched = started.dispatched]
    /\ UNCHANGED tempOthers

\* time passes: what was just made is at the threshold, what was at the
\* threshold is past it
TempAge ==
    /\ temp' = [temp EXCEPT
                  !.fs = [e \in TempEntries |->
                            IF ~temp.fs[e].present THEN Absent
                            ELSE [present |-> TRUE,
                                  age |-> IF temp.fs[e].age = 0 THEN StaleAfterSecs
                                          ELSE StaleAfterSecs + 1]],
                  !.result = NoTempResult, !.log = {}, !.dispatched = FALSE]
    /\ UNCHANGED tempOthers

TempNext == TempCreate \/ TempRemove \/ TempStartup \/ TempAge

SpecTemp == TempInit /\ [][TempNext]_vars

\* the entries that are there before the step and not after it
Deleted == {e \in TempEntries : temp.fs[e].present /\ ~temp'.fs[e].present}

\* the entries that are there after the step and were not before it
Made == {e \in TempEntries : ~temp.fs[e].present /\ temp'.fs[e].present}

TempStorageStep ==
    /\ \A e \in Made :
          /\ temp'.result.op = "create"
          /\ e.dir = TempRoot
          /\ starts_with(e.name, ManagedPrefix)
    /\ (temp'.result.op = "create" /\ temp'.result.ok) =>
          /\ Deleted = {}
          /\ starts_with(Unwrap(temp'.result.path).name, ManagedPrefix)
    /\ temp'.result.op = "remove" =>
          /\ \A e \in Deleted : starts_with(e.name, ManagedPrefix)
          /\ temp'.result.ok => Deleted = {Unwrap(temp'.result.path)}
          /\ ~temp'.result.ok => Deleted = {}
    /\ temp'.result.op = "sweep" =>
          \A e \in Deleted :
              /\ e.dir = TempRoot
              /\ starts_with(e.name, ManagedPrefix)
              /\ temp.fs[e].age > StaleAfterSecs
    /\ temp'.result.op = "-" => Deleted = {}

\* C24: the managed temp storage deletes nothing outside its namespace: a
\* created directory's name starts with postgres-seren-replicator-; removal
\* of a path whose last component lacks the prefix is an error and deletes
\* nothing; the sweep removes only entries of the system temp root that carry
\* the prefix and are older than the threshold.
C24_DeletesOnlyManagedEntries == [][TempStorageStep]_vars

\* the sweep removed a stale directory of ours and left the entries next to
\* it, one with a name that is almost the prefix and one stale in another
\* directory
C24_Witness ==
    /\ temp.result.op = "sweep" /\ temp.result.ok
    /\ ~temp.fs[[dir |-> TempRoot, name |-> ManagedPrefix \o <<"1">>]].present
    /\ temp.fs[[dir |-> TempRoot,
                name |-> <<"postgres", "-", "seren", "-", "replicator">>]]
          = [present |-> TRUE, age |-> StaleAfterSecs + 1]
    /\ temp.fs[[dir |-> TempRoot, name |-> ManagedPrefix \o <<"2">>]]
          = [present |-> TRUE, age |-> StaleAfterSecs]
    /\ temp.fs[[dir |-> "home", name |-> ManagedPrefix \o <<"1">>]]
          = [present |-> TRUE, age |-> StaleAfterSecs + 1]

ValidateInit ==
    /\ \E c \in {k \in CmdConfigs : k.name = "validate"} :
       \E w \in Worlds(c) : cmd = CmdCall(c, w)
    /\ InitNotCalled
    /\ installed \in {AllTools, AllTools \ {"psql"}}
    /\ UrlIdle /\ ToolIdle /\ SqlIdle /\ RetryIdle /\ WaitIdle /\ LagIdle
    /\ TempIdle /\ CallIdle

ValidateNext == CmdValidate

SpecValidate == ValidateInit /\ [][ValidateNext]_vars

Validated == cmd.name = "validate" /\ cmd.result.done /\ cmd.result.ok

\* the extensions of the source other than plpgsql
SourceExtensions == {e \in cmd.world.source_extensions : e.name # "plpgsql"}

\* what the target has in shared_preload_libraries
TargetPreloaded ==
    {name \in {"x", "pg_cron"} :
        \E i \in 1..Len(cmd.world.target_preloaded) :
            cmd.world.target_preloaded[i] = name}

\* all that validate is to have found, the versions aside
ValidatedChecks ==
    /\ RequiredTools \subseteq installed
    /\ validate_connection_string(Render(cmd.source))
    /\ validate_connection_string(Render(cmd.target))
    /\ validate_source_target_different(Render(cmd.source), Render(cmd.target)).ok
    /\ Looked # <<>>
    /\ cmd.world.source_privs.has_replication \/ cmd.world.source_privs.is_superuser
    /\ cmd.world.target_privs.has_create_db \/ cmd.world.target_privs.is_superuser
    /\ \A e \in SourceExtensions :
          /\ \E t \in cmd.world.target_available : t.name = e.name
          /\ requires_preload(e.name) => e.name \in TargetPreloaded

\* C26: validate returns success only if the required tools are there, both
\* URLs have the shape of a connection string, source and target differ, the
\* filtered list is not empty, the source role may replicate, the target role
\* may create databases, the major versions are the same, and every extension
\* of the source other than plpgsql is available on the target and preloaded
\* there when it has to be.
C26_ValidateSucceedsOnlyIfAllChecks ==
    Validated =>
        /\ ValidatedChecks
        /\ cmd.world.source_version.major = cmd.world.target_version.major

\* the same when neither server runs a pre-release
C26_ValidateOnReleases ==
    (/\ Validated
     /\ cmd.world.source_version.kind = "release"
     /\ cmd.world.target_version.kind = "release")
        => /\ ValidatedChecks
           /\ cmd.world.source_version.major = cmd.world.target_version.major

\* the checks other than the one on the versions, on any servers
C26_ValidateChecksButVersions == Validated => ValidatedChecks

\* validate succeeds on a 16beta1 source and a 17beta1 target
C26_PreReleasesOfDifferentMajors ==
    /\ Validated
    /\ cmd.world.source_version = [major |-> 16, kind |-> "beta"]
    /\ cmd.world.target_version = [major |-> 17, kind |-> "beta"]

\* validate succeeds with no more than warnings for a target role without
\* CREATEROLE and an extension whose major version differs
C26_WarningsOnly ==
    /\ Validated
    /\ cmd.report.warnings = {"create_role", "extension_version"}

\* where init stands, or returned from, before the operator has said yes
BeforeConfirmation ==
    {"validate", "create_temp_dir", "checkpoint_path", "dump_globals",
     "restore_globals", "connect_source", "list_databases", "load_checkpoint",
     "save_baseline", "confirm"}

NotYetConfirmed ==
    \/ pc \in BeforeConfirmation
    \/ pc \in {"done", "killed"} /\ result.at \in BeforeConfirmation

\* C27: without skip_confirmation, init has the operator's confirmation
\* before it dumps the global objects or restores them on the target; when
\* the operator declines, init returns an error and has written nothing to
\* the target.
C27_ConfirmBeforeGlobals ==
    (~cfg.skip_confirmation /\ runs = 1 /\ NotYetConfirmed) =>
        /\ ~targetGlobals
        /\ "spawn" \notin ghost.effects
        /\ (pc = "done" /\ result.at = "confirm") => ~result.ok

\* the operator declined and the global objects are on the target already
C27_DeclinedAfterGlobalsRestored ==
    /\ ~cfg.skip_confirmation
    /\ runs = 1
    /\ pc = "done"
    /\ ~result.ok
    /\ result.kind = "cancelled"
    /\ targetGlobals
    /\ "spawn" \in ghost.effects

\* the checkpoint on disk is one init may resume from: init was called with
\* allow_resume, the file is there, and it was written for these endpoints,
\* this filter, these flags and these database names
ResumableCheckpoint ==
    /\ cfg.allow_resume
    /\ IsSome(checkpoint_load(ckptFile))
    /\ checkpoint_validate(Unwrap(checkpoint_load(ckptFile)),
                           checkpoint_metadata(cfg), databases(cfg))

ResumeStep ==
    /\ (pc = "load_checkpoint" /\ pc' = "save_baseline") =>
          IF ResumableCheckpoint
          THEN /\ checkpoint_state' = Unwrap(ckptFile)
               /\ ckptFile' = ckptFile
               /\ ghost'.resumed = Some(Unwrap(ckptFile).completed)
          ELSE /\ checkpoint_state'
                     = checkpoint_new(checkpoint_metadata(cfg), databases(cfg))
               /\ ckptFile' = NoCheckpoint
               /\ ghost'.resumed = None
    /\ (pc = "next_database" /\ idx <= Len(databases(cfg)) /\ pc' # "killed") =>
          IF IsSome(ghost.resumed) /\ db_info \in Unwrap(ghost.resumed)
          THEN pc' = "next_database" /\ idx' = idx + 1 /\ target' = target
          ELSE pc' = "connect_target" /\ idx' = idx

\* C28: init skips a database exactly when it was called with allow_resume,
\* a checkpoint of the pair is there and validates against the current
\* endpoints, filter, flags and database names, and the database is in its
\* completed set; without allow_resume or with a checkpoint that does not
\* validate, the old checkpoint is discarded and every database is processed.
C28_SkipExactlyFromValidCheckpoint == [][ResumeStep]_vars

\* the second call resumed, skipped the database the first had finished and
\* is at work on the next
C28_Witness ==
    /\ cfg.allow_resume
    /\ IsSome(ghost.resumed)
    /\ ghost.skipped = {SourceDatabases[1]}
    /\ ghost.skipped = Unwrap(ghost.resumed)
    /\ pc = "create_database"
    /\ idx = 2

\* the steps init takes for one database
DatabaseSteps ==
    {"connect_target", "create_database", "database_is_empty", "drop_database",
     "recreate_database", "dump_schema", "restore_schema", "dump_data",
     "restore_data", "copy_filtered_tables", "mark_completed"}

\* the steps that may follow a step that succeeded
StepsAfter(step) ==
    CASE step = "connect_target"       -> {"create_database"}
      [] step = "create_database"      -> {"dump_schema", "database_is_empty"}
      [] step = "database_is_empty"    -> {"dump_schema", "drop_database"}
      [] step = "drop_database"        -> {"recreate_database"}
      [] step = "recreate_database"    -> {"dump_schema"}
      [] step = "dump_schema"          -> {"restore_schema"}
      [] step = "restore_schema"       -> {"dump_data"}
      [] step = "dump_data"            -> {"restore_data"}
      [] step = "restore_data"         ->
            IF predicate_tables(cfg.filter, db_info) # {}
            THEN {"copy_filtered_tables"} ELSE {"mark_completed"}
      [] step = "copy_filtered_tables" -> {"mark_completed"}
      [] step = "mark_completed"       -> {"next_database"}

\* the databases of the list after the one the loop is at
LaterDatabases == {databases(cfg)[j] : j \in (idx + 1)..Len(databases(cfg))}

InOrderStep ==
    pc \in DatabaseSteps =>
        /\ ghost.baseline
        /\ idx \in 1..Len(databases(cfg))
        /\ ~is_completed(Unwrap(ckptFile), db_info)
        /\ \A d \in LaterDatabases :
              d \notin ghost.created /\ ~is_completed(Unwrap(ckptFile), d)
        /\ \A d \in Range(SourceDatabases) \ {db_info} : target'[d] = target[d]
        /\ pc' \in StepsAfter(pc) \cup {"done", "killed"}
        /\ pc' \in {"done", "killed"} =>
              /\ ~result'.ok
              /\ idx' = idx
              /\ ckptFile' = ckptFile
        /\ pc' \in StepsAfter(pc) =>
              IF pc = "mark_completed"
              THEN /\ idx' = idx + 1
                   /\ is_completed(Unwrap(ckptFile'), db_info)
                   /\ target' = target
              ELSE /\ idx' = idx
                   /\ ckptFile' = ckptFile
        /\ (pc = "restore_schema" /\ pc' = "dump_data") => target'[db_info] = "schema"
        /\ (pc = "restore_data" /\ pc' \in StepsAfter(pc)) => target'[db_info] = "data"

\* C29: the baseline checkpoint is saved before the first CREATE DATABASE;
\* for a database that is not skipped init creates the database, dumps and
\* restores the schema, dumps and restores the data, copies the filtered
\* tables, marks it completed and saves the checkpoint, in this order and each
\* only after the one before succeeded; the databases are taken one at a time
\* in the order of the list, and a failure ends the run with the database not
\* marked completed and no later database touched.
C29_DatabaseStepsInOrder == [][InOrderStep]_vars

\* the first database is finished and saved, the second has its data and
\* filtered tables and is about to be marked, the third is untouched
C29_Witness ==
    /\ pc = "mark_completed"
    /\ idx = 2
    /\ ghost.finished = {SourceDatabases[1]}
    /\ Unwrap(ckptFile).completed = {SourceDatabases[1]}
    /\ target[SourceDatabases[2]] = "copied"
    /\ target[SourceDatabases[3]] = "absent"

-----------------------------------------------------------------------------
(* Init beside another session on the target server (SpecRace)             *)
(* init.rs 243-331 holds no lock on the database between its statements:   *)
(* CREATE DATABASE (252), the table count of database_is_empty (502-518),  *)
(* DROP and CREATE again (288-300) and the psql run of restore_schema      *)
(* (331) are separate round trips, and another session of the server may   *)
(* act between any two of them.  A database that session filled is         *)
(* "foreign".                                                              *)

\* the other session is followed while init works on its first database in
\* its first run
OtherSessionActs ==
    /\ pc \in DatabaseSteps
    /\ runs = 1
    /\ idx = 1

\* another session creates the database init is working on
OtherCreateDatabase ==
    /\ OtherSessionActs
    /\ target[db_info] = "absent"
    /\ target' = [target EXCEPT ![db_info] = "created"]
    /\ UNCHANGED <<cfg, pc, idx, checkpoint_state, ckptFile, targetGlobals, tempDir,
                   runs, result, ghost, prev, urlVars, toolVars, installed, auxVars>>

\* another session creates tables in it
OtherPopulateDatabase ==
    /\ OtherSessionActs
    /\ target[db_info] \notin {"absent", "foreign"}
    /\ target' = [target EXCEPT ![db_info] = "foreign"]
    /\ UNCHANGED <<cfg, pc, idx, checkpoint_state, ckptFile, targetGlobals, tempDir,
                   runs, result, ghost, prev, urlVars, toolVars, installed, auxVars>>

\* another session drops it
OtherDropDatabase ==
    /\ OtherSessionActs
    /\ target[db_info] # "absent"
    /\ target' = [target EXCEPT ![db_info] = "absent"]
    /\ UNCHANGED <<cfg, pc, idx, checkpoint_state, ckptFile, targetGlobals, tempDir,
                   runs, result, ghost, prev, urlVars, toolVars, installed, auxVars>>

RaceNext ==
    \/ Next
    \/ OtherCreateDatabase
    \/ OtherPopulateDatabase
    \/ OtherDropDatabase

SpecRace == Init /\ [][RaceNext]_vars

\* whether this run could have been allowed to overwrite a database: by
\* drop_existing, or by the operator, who is only asked without
\* skip_confirmation (init.rs 272-284)
MayOverwrite == cfg.drop_existing \/ ~cfg.skip_confirmation

\* the schema restore of init.rs 331 going into the database
SchemaRestoreStarts ==
    /\ pc = "restore_schema"
    /\ pc' = "dump_data"

RestoreIntoOwnStep ==
    (SchemaRestoreStarts /\ HasUserTables(target[db_info])) => MayOverwrite

\* C30: whatever another session does to the same database (create it, fill
\* it, drop it) between init's statements, the schema restore never starts
\* into a database that holds user tables at that moment unless init was
\* allowed to overwrite it (drop_existing, or the operator's yes).
C30_NoRestoreIntoForeignTables == [][RestoreIntoOwnStep]_vars

\* nobody allowed an overwrite, init found the database empty or created it,
\* another session filled it, and init stands before the restore
C30_ForeignTablesBeforeRestore ==
    /\ pc = "restore_schema"
    /\ target[db_info] = "foreign"
    /\ cfg.skip_confirmation
    /\ ~cfg.drop_existing
    /\ installed = AllTools

-----------------------------------------------------------------------------
(* The table lists of the dump driver (SpecFilter)                         *)
(* migration/dump.rs 81-102, 199-215, 250-300: what a filter contributes   *)
(* to the pg_dump command lines of one database.  crate::filters is not    *)
(* among the sources; the filter is the record of its accessors.           *)

\* "\"public\".\"{}\"" and the schema-qualified names of the table rules
qualified(schema, table) == <<"\"">> \o schema \o <<"\".\"">> \o table \o <<"\"">>

\* the names of the model in the order a BTreeSet<String> iterates them
QualifiedInOrder ==
    << qualified(<<"public">>, <<"t">>), qualified(<<"public">>, <<"u">>),
       qualified(<<"s">>, <<"t">>) >>

\* entries of --exclude-tables / --include-tables as they are written
FullNames ==
    { <<"x", ".", "t">>, <<"y", ".", "t">>, <<"x", ".", "u">>, <<"t">>,
      <<"x", ".", "s", ".", "t">> }

RuleKinds == {"SchemaOnly", "Predicate", "TimeWindow"}

\* TableRules entries: (database, qualified table, kind)
TableRules ==
    { [db |-> <<"x">>, table |-> qualified(<<"public">>, <<"t">>), kind |-> "SchemaOnly"],
      [db |-> <<"x">>, table |-> qualified(<<"s">>, <<"t">>), kind |-> "Predicate"],
      [db |-> <<"x">>, table |-> qualified(<<"public">>, <<"u">>), kind |-> "TimeWindow"],
      [db |-> <<"y">>, table |-> qualified(<<"public">>, <<"u">>), kind |-> "SchemaOnly"] }

OptionalSets(S) == {None} \cup {Some(T) : T \in SUBSET S}

\* a filter as its accessors show it
table_filter(exclude_tables, include_tables, rules) ==
    [include        |-> {},
     exclude        |-> {},
     exclude_tables |-> exclude_tables,
     include_tables |-> include_tables,
     rules          |-> rules,
     schema_only    |-> {<<r.db, r.table>> : r \in {q \in rules : q.kind = "SchemaOnly"}},
     predicates     |-> {<<r.db, r.table>> :
                            r \in {q \in rules : q.kind \in {"Predicate", "TimeWindow"}}}]

TableFilters ==
    {table_filter(ex, inc, rules) :
        ex \in OptionalSets(FullNames),
        inc \in {None, Some({}), Some({<<"x", ".", "u">>})},
        rules \in SUBSET TableRules}

schema_only_tables(filter, db_name) ==
    {p[2] : p \in {q \in filter.schema_only : q[1] = db_name}}

\* the entries "db.table" of a list that name a table of db_name
explicit_tables_for_db(names, db_name) ==
    {qualified(<<"public">>, split(full_name, ".")[2]) :
        full_name \in {n \in names : /\ Len(split(n, ".")) = 2
                                     /\ split(n, ".")[1] = db_name}}

\* dump.rs 250-281
get_excluded_tables_for_db(filter, db_name) ==
    LET tables ==
            (IF IsSome(filter.exclude_tables)
             THEN explicit_tables_for_db(Unwrap(filter.exclude_tables), db_name)
             ELSE {})
            \cup schema_only_tables(filter, db_name)
            \cup predicate_tables(filter, db_name)
    IN  IF tables = {} THEN None ELSE Some(SelectSeqBy(QualifiedInOrder, tables))

\* dump.rs 285-300
get_included_tables_for_db(filter, db_name) ==
    IF IsSome(filter.include_tables)
    THEN Some(SelectSeqBy(QualifiedInOrder,
                          explicit_tables_for_db(Unwrap(filter.include_tables), db_name)))
    ELSE None

\* the source URL of the database, parsed
DumpParts(db_name) ==
    [host |-> <<"h">>, port |-> DefaultPort, database |-> db_name, user |-> None,
     password |-> None, query_params |-> {}]

FilterInit ==
    /\ fncall \in [fn : {"dump"}, filter : TableFilters, database : {<<"x">>, <<"y">>},
                   schema : {None}, data : {None}]
    /\ UrlIdle /\ ToolIdle /\ InitIdle /\ SqlIdle /\ CmdIdle /\ RetryIdle /\ WaitIdle
    /\ LagIdle /\ TempIdle

callOthers == <<urlVars, toolVars, initVars, sql, cmd, retry, wait, lag, temp>>

\* dump.rs 81-118: the pg_dump line of dump_schema
FilterDumpSchema ==
    /\ fncall.schema = None
    /\ fncall' = [fncall EXCEPT !.schema =
           Some(dump_schema_argv(DumpParts(fncall.database),
                    get_excluded_tables_for_db(fncall.filter, fncall.database),
                    get_included_tables_for_db(fncall.filter, fncall.database)))]
    /\ UNCHANGED callOthers

\* dump.rs 191-227: the pg_dump line of dump_data
FilterDumpData ==
    /\ fncall.data = None
    /\ fncall' = [fncall EXCEPT !.data =
           Some(dump_data_argv(DumpParts(fncall.database),
                    get_excluded_tables_for_db(fncall.filter, fncall.database),
                    get_included_tables_for_db(fncall.filter, fncall.database),
                    num_cpus(None)))]
    /\ UNCHANGED callOthers

FilterNext == FilterDumpSchema \/ FilterDumpData

SpecFilter == FilterInit /\ [][FilterNext]_vars

\* the command line has the flag followed by the value
HasArg(argv, flag, value) ==
    \E i \in 1..(Len(argv) - 1) : argv[i] = <<flag>> /\ argv[i + 1] = value

\* the flag is followed by some table of a set
HasTableArgOf(argv, flag, tables) == \E t \in tables : HasArg(argv, flag, t)

RulesOf(db_name) == {r \in fncall.filter.rules : r.db = db_name}

ExplicitlyExcluded(db_name) ==
    IF IsSome(fncall.filter.exclude_tables)
    THEN explicit_tables_for_db(Unwrap(fncall.filter.exclude_tables), db_name)
    ELSE {}

AllQualified == Range(QualifiedInOrder)

\* C31 (data dump): the data dump of a database excludes the rows of every
\* table of that database that carries a rule.
C31_RuleTablesLeftOutOfData ==
    IsSome(fncall.data)
        => \A r \in RulesOf(fncall.database) :
               HasArg(Unwrap(fncall.data), "--exclude-table-data", r.table)

\* C31 (other databases): a table is named in an exclusion argument only if
\* the filter names it for this database.
C31_OnlyThisDatabaseContributes ==
    /\ IsSome(fncall.schema)
         => \A t \in AllQualified :
                HasArg(Unwrap(fncall.schema), "--exclude-table", t)
                    => \/ t \in ExplicitlyExcluded(fncall.database)
                       \/ \E r \in RulesOf(fncall.database) : r.table = t
    /\ IsSome(fncall.data)
         => \A t \in AllQualified :
                HasArg(Unwrap(fncall.data), "--exclude-table-data", t)
                    => \/ t \in ExplicitlyExcluded(fncall.database)
                       \/ \E r \in RulesOf(fncall.database) : r.table = t

\* C31: for a table of the database that is SchemaOnly or carries a
\* Predicate or TimeWindow rule, the schema dump still includes the table
\* and the data dump excludes its rows by --exclude-table-data; only the
\* tables of the explicit exclude-tables list of the database are left out
\* of the schema dump; entries of other databases contribute no argument.
C31_SchemaKeepsRuleTables ==
    /\ IsSome(fncall.schema)
         => \A t \in AllQualified :
                HasArg(Unwrap(fncall.schema), "--exclude-table", t)
                    <=> t \in ExplicitlyExcluded(fncall.database)
    /\ C31_RuleTablesLeftOutOfData
    /\ C31_OnlyThisDatabaseContributes

\* the schema dump leaves out a SchemaOnly table nobody excluded
C31_SchemaOnlyTableNotDumped ==
    /\ IsSome(fncall.schema)
    /\ \E r \in RulesOf(fncall.database) :
          /\ r.kind = "SchemaOnly"
          /\ r.table \notin ExplicitlyExcluded(fncall.database)
          /\ HasArg(Unwrap(fncall.schema), "--exclude-table", r.table)

-----------------------------------------------------------------------------
(* create_publication (SpecPublication)                                    *)
(* replication/publication.rs 24-131, one call as one step.                *)

\* what list_tables may return for a database, ORDER BY schema, name
\* (migration/schema.rs 46-74); one table has a double quote in its name
SourceTablesInOrder ==
    << [schema |-> <<"public">>, name |-> <<"a", "\"", "b">>],
       [schema |-> <<"public">>, name |-> <<"t">>],
       [schema |-> <<"public">>, name |-> <<"u">>],
       [schema |-> <<"s">>, name |-> <<"t">>] >>

SourceTableLists ==
    {SelectSeqBy(SourceTablesInOrder, T) : T \in SUBSET Range(SourceTablesInOrder)}

\* what the server answers to CREATE PUBLICATION
PublicationAnswers == {"ok", "already exists", "permission denied", "wal_level", "other"}

\* filters without table rules
ScopeFilters == {f \in TableFilters : f.rules = {}}

PublicationName == <<"seren_migration_pub">>

\* publication.rs 47-51: the name handed to should_replicate_table
table_name_for_filter(table) ==
    IF table.schema = <<"public">> THEN table.name
    ELSE table.schema \o <<".">> \o table.name

\* ReplicationFilter::should_replicate_table: the database passes, the
\* table is in the include list if there is one, and not in the exclude list
should_replicate_table(filter, db_name, table_name) ==
    LET full_name == db_name \o <<".">> \o table_name
    IN  /\ should_replicate_database(filter, db_name)
        /\ IsSome(filter.include_tables)
              => (Unwrap(filter.include_tables) = {}
                  \/ full_name \in Unwrap(filter.include_tables))
        /\ IsSome(filter.exclude_tables) => full_name \notin Unwrap(filter.exclude_tables)

\* publication.rs 33
has_table_filter(filter) ==
    IsSome(filter.include_tables) \/ IsSome(filter.exclude_tables)

RECURSIVE filter_tables(_, _, _)
filter_tables(tables, filter, db_name) ==
    IF tables = <<>> THEN <<>>
    ELSE (IF should_replicate_table(filter, db_name, table_name_for_filter(Head(tables)))
          THEN <<Head(tables)>> ELSE <<>>)
         \o filter_tables(Tail(tables), filter, db_name)

\* publication.rs 70-74
table_list(filtered_tables) ==
    [i \in 1..Len(filtered_tables) |->
        in_double_quotes(filtered_tables[i].schema) \o <<".">>
            \o in_double_quotes(filtered_tables[i].name)]

\* the same list with every name quoted as an identifier
quoted_table_list(filtered_tables) ==
    [i \in 1..Len(filtered_tables) |->
        quote_ident(filtered_tables[i].schema) \o <<".">>
            \o quote_ident(filtered_tables[i].name)]

for_table_query(publication_name, names) ==
    <<"CREATE PUBLICATION ">> \o in_double_quotes(publication_name)
        \o <<" FOR TABLE ">> \o join(names, ", ")

for_all_tables_query(publication_name) ==
    <<"CREATE PUBLICATION ">> \o in_double_quotes(publication_name)
        \o <<" FOR ALL TABLES">>

\* publication.rs 24-131; tables is what list_tables returns (None: it
\* failed), answer what the server says to the statement
create_publication(tables, answer, db_name, publication_name, filter) ==
    IF has_table_filter(filter) /\ tables = None
    THEN [executed |-> None, result |-> Err("list_tables")]
    ELSE IF has_table_filter(filter)
            /\ filter_tables(Unwrap(tables), filter, db_name) = <<>>
    THEN [executed |-> None, result |-> Err("No tables match the filter criteria")]
    ELSE LET query ==
                 IF has_table_filter(filter)
                 THEN for_table_query(publication_name,
                          table_list(filter_tables(Unwrap(tables), filter, db_name)))
                 ELSE for_all_tables_query(publication_name)
         IN  [executed |-> Some(query),
              result   |-> IF answer \in {"ok", "already exists"} THEN Ok("-")
                           ELSE Err(answer)]

NoPublication == [executed |-> None, result |-> Err("-")]

PublicationInit ==
    /\ fncall \in [fn : {"create_publication"}, filter : ScopeFilters,
                   database : {<<"x">>, <<"y">>},
                   tables : {None} \cup {Some(l) : l \in SourceTableLists},
                   answer : PublicationAnswers, done : {FALSE}, out : {NoPublication}]
    /\ UrlIdle /\ ToolIdle /\ InitIdle /\ SqlIdle /\ CmdIdle /\ RetryIdle /\ WaitIdle
    /\ LagIdle /\ TempIdle

PublicationCreate ==
    /\ ~fncall.done
    /\ fncall' = [fncall EXCEPT
           !.done = TRUE,
           !.out = create_publication(fncall.tables, fncall.answer, fncall.database,
                                      PublicationName, fncall.filter)]
    /\ UNCHANGED callOthers

SpecPublication == PublicationInit /\ [][PublicationCreate]_vars

\* the filter names tables to include or to exclude
TableScoped == IsSome(fncall.filter.include_tables) \/ IsSome(fncall.filter.exclude_tables)

\* the tables of the database that pass should_replicate_table
Replicated ==
    IF fncall.tables = None THEN <<>>
    ELSE SelectSeqBy(Unwrap(fncall.tables),
            {t \in Range(Unwrap(fncall.tables)) :
                should_replicate_table(fncall.filter, fncall.database,
                                       table_name_for_filter(t))})

\* the claim but for the way a name is written
PublicationAsClaimed(names) ==
    (fncall.done /\ (TableScoped => fncall.tables # None))
        => /\ (fncall.out.executed = Some(for_all_tables_query(PublicationName)))
                  <=> ~TableScoped
           /\ (TableScoped /\ Replicated # <<>>)
                  => fncall.out.executed = Some(for_table_query(PublicationName, names))
           /\ (TableScoped /\ Replicated = <<>>)
                  => (fncall.out.executed = None /\ ~fncall.out.result.ok)
           /\ (IsSome(fncall.out.executed) /\ fncall.answer = "already exists")
                  => fncall.out.result.ok

\* C32: create_publication issues FOR ALL TABLES iff the filter names no
\* tables; otherwise the FOR TABLE list is exactly the tables of the
\* database that pass should_replicate_table, each written as a quoted
\* schema-qualified name; when there is none it returns an error and
\* executes nothing; "already exists" from the server is success.
C32_PublicationStatement == PublicationAsClaimed(quoted_table_list(Replicated))

\* C32 with the names as the code writes them: wrapped in double quotes,
\* a double quote inside a name left as it is.
C32_PublicationStatementWrapped == PublicationAsClaimed(table_list(Replicated))

\* a table with a double quote in its name went into the statement
C32_QuoteInTableName ==
    /\ fncall.done
    /\ TableScoped
    /\ IsSome(fncall.out.executed)
    /\ \E i \in 1..Len(Replicated) : "\"" \in Chars(Replicated[i].name)

\* the server said the publication exists and the call returned success
C32_AlreadyExists ==
    /\ fncall.done
    /\ fncall.answer = "already exists"
    /\ IsSome(fncall.out.executed)
    /\ fncall.out.result.ok

-----------------------------------------------------------------------------
(* The order of sync's steps (SpecCmd)                                     *)

\* the steps of cmd.trace before position i went on to a next step, so each
\* of them returned success
SyncStepBefore(i, step, db) ==
    \E j \in 1..(i - 1) : cmd.trace[j] = [step |-> step, db |-> db]

\* position of a database in the list sync works through
DatabaseIndex(db) ==
    CHOOSE k \in 1..Len(databases(cmd)) : Some(databases(cmd)[k]) = db

\* C33: in sync the subscription of a database is created only after its
\* publication was created with success, wait_for_sync starts only after
\* the subscription was created with success, a later database is touched
\* only after wait_for_sync returned success for every earlier one, and a
\* failure at any step ends the run there.
C33_SyncStepsInOrder ==
    (cmd # InitCall /\ cmd.name = "sync" /\ cmd.result.done)
        => /\ \A i \in 1..Len(cmd.trace) :
                 LET s == cmd.trace[i]
                 IN  /\ s.step = "create_subscription"
                            => SyncStepBefore(i, "create_publication", s.db)
                     /\ s.step = "wait_for_sync"
                            => SyncStepBefore(i, "create_subscription", s.db)
                     /\ IsSome(s.db)
                            => \A k \in 1..(DatabaseIndex(s.db) - 1) :
                                   SyncStepBefore(i, "wait_for_sync",
                                                  Some(databases(cmd)[k]))
           /\ ~cmd.result.ok
                 => cmd.trace[Len(cmd.trace)].step = cmd.result.at

\* sync set up the first database and failed creating the subscription of
\* the second one
C33_Witness ==
    /\ cmd # InitCall
    /\ cmd.name = "sync"
    /\ cmd.result.done
    /\ ~cmd.result.ok
    /\ cmd.result.at = "create_subscription"
    /\ cmd.trace[Len(cmd.trace)].db = Some(databases(cmd)[2])

-----------------------------------------------------------------------------
(* Publication and subscription names (SpecNames)                          *)
(* commands/sync.rs 87-88, 159-174 and commands/status.rs 92, 149-157.     *)

PubNameDefault == <<"seren_migration_pub">>
SubNameDefault == <<"seren_migration_sub">>

\* Option::unwrap_or
unwrap_or(opt, dflt) == IF IsSome(opt) THEN Unwrap(opt) ELSE dflt

\* the database names a source may have, ORDER BY datname
NamedDatabasesInOrder ==
    << <<"a">>, <<"a", "_", "b">>, <<"b">>, <<"p", "u", "b">>, <<"s", "u", "b">>,
       <<"x">> >>

NamedDatabaseLists ==
    {SelectSeqBy(NamedDatabasesInOrder, S) : S \in SUBSET Range(NamedDatabasesInOrder)}

\* a naming that appends the database name whatever the list
name_always_suffixed(listed, template, db) == template \o <<"_">> \o db

\* sync.rs 159-174: the same rule for the publication and the subscription
sync_name(listed, template, db) ==
    IF Len(listed) = 1 THEN template
    ELSE template \o <<"_">> \o db

\* status.rs 149-157
status_sub_name(listed, db) ==
    IF Len(listed) = 1 THEN SubNameDefault
    ELSE SubNameDefault \o <<"_">> \o db

\* sync.rs 86-174: the names of one run; main.rs 307 and init.rs 390-398
\* pass None for both templates
sync_names(listed, publication_name, subscription_name) ==
    [i \in 1..Len(listed) |->
        [pub |-> sync_name(listed, unwrap_or(publication_name, PubNameDefault),
                           listed[i]),
         sub |-> sync_name(listed, unwrap_or(subscription_name, SubNameDefault),
                           listed[i])]]

status_names(listed) ==
    [i \in 1..Len(listed) |-> status_sub_name(listed, listed[i])]

NamesInit ==
    /\ fncall \in [fn : {"names"}, databases : NamedDatabaseLists,
                   publication_name : {None}, subscription_name : {None},
                   sync : {None}, status : {None}]
    /\ UrlIdle /\ ToolIdle /\ InitIdle /\ SqlIdle /\ CmdIdle /\ RetryIdle /\ WaitIdle
    /\ LagIdle /\ TempIdle

NamesSync ==
    /\ fncall.sync = None
    /\ fncall' = [fncall EXCEPT !.sync =
           Some(sync_names(fncall.databases, fncall.publication_name,
                           fncall.subscription_name))]
    /\ UNCHANGED callOthers

NamesStatus ==
    /\ fncall.status = None
    /\ fncall' = [fncall EXCEPT !.status = Some(status_names(fncall.databases))]
    /\ UNCHANGED callOthers

NamesNext == NamesSync \/ NamesStatus

SpecNames == NamesInit /\ [][NamesNext]_vars

\* the template alone for a list of one, template_database otherwise
NamedByRule(name, template, db) ==
    IF Len(fncall.databases) = 1 THEN name = template
    ELSE name = template \o <<"_">> \o db

\* C34: in sync and in status a list of exactly one database gets the
\* templates as names, a longer list gets template, '_' and the database
\* name; the names of distinct databases of one run are distinct; and for
\* the same list status looks up, for each database, the subscription name
\* sync creates for it.
C34_NamesByListLength ==
    LET dbs == fncall.databases
    IN  /\ IsSome(fncall.sync) =>
              \A i \in 1..Len(dbs) :
                 /\ NamedByRule(Unwrap(fncall.sync)[i].pub, PubNameDefault, dbs[i])
                 /\ NamedByRule(Unwrap(fncall.sync)[i].sub, SubNameDefault, dbs[i])
                 /\ \A j \in 1..Len(dbs) :
                       i # j => /\ Unwrap(fncall.sync)[i].pub # Unwrap(fncall.sync)[j].pub
                                /\ Unwrap(fncall.sync)[i].sub # Unwrap(fncall.sync)[j].sub
        /\ IsSome(fncall.status) =>
              \A i \in 1..Len(dbs) :
                 /\ NamedByRule(Unwrap(fncall.status)[i], SubNameDefault, dbs[i])
                 /\ \A j \in 1..Len(dbs) :
                       i # j => Unwrap(fncall.status)[i] # Unwrap(fncall.status)[j]
        /\ (IsSome(fncall.sync) /\ IsSome(fncall.status)) =>
              \A i \in 1..Len(dbs) : Unwrap(fncall.status)[i] = Unwrap(fncall.sync)[i].sub

\* both commands named a list of one database and a list of several
C34_Witness ==
    /\ IsSome(fncall.sync)
    /\ IsSome(fncall.status)
    /\ Len(fncall.databases) = 1
    /\ Unwrap(fncall.status)[1] = SubNameDefault

C34_WitnessSeveral ==
    /\ IsSome(fncall.sync)
    /\ IsSome(fncall.status)
    /\ Len(fncall.databases) > 1
    /\ Unwrap(fncall.sync)[2].sub = SubNameDefault \o <<"_">> \o fncall.databases[2]

-----------------------------------------------------------------------------
(* The environment of the external tools (SpecTools)                       *)

\* utils.rs 588-597: query parameter, environment variable
ParamMapping ==
    { <<"sslmode", "PGSSLMODE">>, <<"sslcert", "PGSSLCERT">>, <<"sslkey", "PGSSLKEY">>,
      <<"sslrootcert", "PGSSLROOTCERT">>, <<"channel_binding", "PGCHANNELBINDING">>,
      <<"connect_timeout", "PGCONNECT_TIMEOUT">>, <<"application_name", "PGAPPNAME">>,
      <<"client_encoding", "PGCLIENTENCODING">> }

\* utils.rs 584-606 PostgresUrlParts::to_pg_env_vars
to_pg_env_vars(parts) ==
    {<<m[2], kv[2]>> : <<m, kv>> \in
        {p \in ParamMapping \X parts.query_params : p[2][1] = <<p[1][1]>>}}

\* the endpoint of the running driver call
ToolEndpoint == parse_postgres_url(Render(tcall.url)).val

\* C35: every external tool runs with PGPASSFILE pointing at the credential
\* file of the endpoint and, for each recognized query parameter of the
\* endpoint URL, with the PG* variable of that parameter set to its value.
C35_ToolEnvironment ==
    \A s \in argvLog :
        /\ <<"PGPASSFILE", PgPassPath>> \in s.env
        /\ to_pg_env_vars(ToolEndpoint) \subseteq s.env

\* C35 (credential file): every external tool runs with PGPASSFILE pointing
\* at the credential file.
C35_ToolHasPgPassFile ==
    \A s \in argvLog : <<"PGPASSFILE", PgPassPath>> \in s.env

\* a tool was spawned for an endpoint whose URL asks for an sslmode
C35_SslmodeNotPassedOn ==
    /\ argvLog # {}
    /\ <<"PGSSLMODE", <<"require">> >> \in to_pg_env_vars(ToolEndpoint)
    /\ \A s \in argvLog : \A e \in s.env : e[1] # "PGSSLMODE"

-----------------------------------------------------------------------------
(* verify and tables without rows (SpecVerify)                             *)

\* the compared tables that have no row on either side
BothEmpty ==
    {i \in 1..Len(AllCompared) :
        /\ AllCompared[i].source.readable /\ AllCompared[i].target.readable
        /\ AllCompared[i].source.rows = 0 /\ AllCompared[i].target.rows = 0}

\* C36: verify ends by returning, with success or with the verification
\* error, and never by a panic, whatever the tables hold; a table without
\* rows on both sides, whose two checksums are the word "empty", is counted
\* as a match.
C36_VerifyNeverPanics ==
    (cmd.name = "verify" /\ cmd.result.done)
        => /\ ~cmd.result.panicked
           /\ VerifyCompared => cmd.report.matches >= Cardinality(BothEmpty)

\* C36 for tables that all have rows: verify returns.
C36_VerifyReturnsWithoutEmptyTables ==
    (/\ cmd.name = "verify"
     /\ cmd.result.done
     /\ \A i \in 1..Len(AllCompared) :
           AllCompared[i].source.rows > 0 /\ AllCompared[i].target.rows > 0)
        => ~cmd.result.panicked

\* verify ended in a panic while it counted the results, and a table
\* without rows on both sides was among them
C36_PanicCountingEmptyTable ==
    /\ cmd.name = "verify"
    /\ cmd.result.done
    /\ cmd.result.panicked
    /\ cmd.result.at = "count_results"
    /\ BothEmpty # {}
    /\ Len(AllCompared) > 1

-----------------------------------------------------------------------------
(* The interactive selector and the phase after it (SpecSelect)            *)
(* interactive.rs 47-410, main.rs 185-308, and the list of databases each  *)
(* phase works through (validate.rs 104-110, init.rs 117-121, sync.rs      *)
(* 112-116).                                                               *)

\* ReplicationFilter::empty()
filter_empty == table_filter(None, None, {})

\* ReplicationFilter::new(Some(include_databases), None, None, exclude_tables)
filter_new(include_databases, exclude_tables) ==
    [table_filter(exclude_tables, None, {}) EXCEPT !.include = include_databases]

\* interactive.rs 47-410: all_databases is what list_databases found,
\* selection what the operator ticked, excluded_tables the tables ticked
\* for exclusion, confirmed the answer to "Proceed with this configuration?"
select_databases_and_tables(all_databases, selection, excluded_tables, confirmed) ==
    IF all_databases = <<>> THEN Ok(filter_empty)
    ELSE IF selection = {} THEN Ok(filter_empty)
    ELSE IF ~confirmed THEN Err(<<"Interactive selection cancelled by user">>)
    ELSE IF excluded_tables = {} THEN Ok(filter_new(selection, None))
    ELSE Ok(filter_new(selection, Some(excluded_tables)))

\* the databases a phase works through: those of the source the filter
\* lets pass
phase_databases(all_databases, filter) ==
    SelectSeqBy(all_databases,
                {d \in Range(all_databases) : should_replicate_database(filter, d)})

SourceLists == {SelectSeqBy(SourceDatabases, S) : S \in SUBSET Range(SourceDatabases)}

NoPhase == [ran |-> FALSE, databases |-> <<>>]

SelectInit ==
    /\ \E all \in SourceLists, sel \in SUBSET Range(SourceDatabases) :
          /\ sel \subseteq Range(all)
          /\ fncall \in [fn : {"select"}, command : {"validate", "init", "sync"},
                         all_databases : {all}, selection : {sel},
                         excluded_tables : {{}, {<<"x", ".", "t">>}},
                         confirmed : BOOLEAN,
                         filter : {None}, failed : {FALSE}, phase : {NoPhase}]
    /\ UrlIdle /\ ToolIdle /\ InitIdle /\ SqlIdle /\ CmdIdle /\ RetryIdle /\ WaitIdle
    /\ LagIdle /\ TempIdle

\* main.rs 195-200, 250-255, 291-296: the interactive branch
SelectInteract ==
    /\ fncall.filter = None
    /\ ~fncall.failed
    /\ LET r == select_databases_and_tables(fncall.all_databases, fncall.selection,
                                            fncall.excluded_tables, fncall.confirmed)
       IN  fncall' = [fncall EXCEPT !.filter = IF r.ok THEN Some(r.val) ELSE None,
                                    !.failed = ~r.ok]
    /\ UNCHANGED callOthers

\* main.rs 210, 266-276, 307: the command runs with the filter
SelectRunPhase ==
    /\ IsSome(fncall.filter)
    /\ ~fncall.phase.ran
    /\ fncall' = [fncall EXCEPT !.phase =
           [ran |-> TRUE,
            databases |-> phase_databases(fncall.all_databases, Unwrap(fncall.filter))]]
    /\ UNCHANGED callOthers

SelectNext == SelectInteract \/ SelectRunPhase

SpecSelect == SelectInit /\ [][SelectNext]_vars

\* C37: when the operator selects no database in the interactive selector,
\* the phase that follows works on no database.
C37_NothingSelectedNothingReplicated ==
    (fncall.phase.ran /\ fncall.selection = {}) => fncall.phase.databases = <<>>

\* C37 the other way round: with a selection the phase works on exactly the
\* selected databases.
C37_SelectedDatabasesReplicated ==
    (fncall.phase.ran /\ fncall.selection # {})
        => Range(fncall.phase.databases) = fncall.selection

\* nothing was selected and sync works on every database of the source
C37_NothingSelectedAllReplicated ==
    /\ fncall.phase.ran
    /\ fncall.command = "sync"
    /\ fncall.selection = {}
    /\ fncall.all_databases # <<>>
    /\ fncall.phase.databases = fncall.all_databases

-----------------------------------------------------------------------------
(* What the table checksum tells apart (SpecChecksum)                      *)
(* migration/checksum.rs 62-86: the text that is hashed, for tables of two *)
(* text columns.  md5 is taken as collision-free: equal digests, equal     *)
(* texts.                                                                  *)

\* most rows of a compared table
MaxRows == 2

\* a column value: NULL, the empty string, "a", "|"
ColumnValues == <<None, Some(<<>>), Some(<<"a">>), Some(<<"|">>)>>

\* the rows of the model in the order ORDER BY "c1", "c2" returns them
RowsInOrder ==
    [k \in 1..(Len(ColumnValues) * Len(ColumnValues)) |->
        << ColumnValues[((k - 1) \div Len(ColumnValues)) + 1],
           ColumnValues[((k - 1) % Len(ColumnValues)) + 1] >>]

\* the tables: their rows in that order, equal rows allowed
RowTables ==
    {[i \in 1..Len(ix) |-> RowsInOrder[ix[i]]] :
        ix \in {s \in SeqsUpTo(1..Len(RowsInOrder), MaxRows) :
                   \A i \in 1..(Len(s) - 1) : s[i] <= s[i + 1]}}

\* checksum.rs 63-66: COALESCE("col"::text, '')
coalesce_text(value) == IF IsSome(value) THEN Unwrap(value) ELSE <<>>

\* checksum.rs 68: the columns of a row joined by '|'
row_data(row) == join([c \in 1..Len(row) |-> coalesce_text(row[c])], "|")

\* checksum.rs 75-78: string_agg(row_data, '' ORDER BY row_num)
string_agg(rows) == FlattenSeq([i \in 1..Len(rows) |-> row_data(rows[i])])

\* checksum.rs 33-111 for a table whose rows are given: what the query
\* returns, as compute_table_checksum reads it
table_as_hashed(rows) == [readable |-> TRUE, rows |-> Len(rows), data |-> string_agg(rows)]

NoComparison == [done |-> FALSE, valid |-> FALSE, matches |-> FALSE]

ChecksumInit ==
    /\ fncall \in [fn : {"compare_tables"}, source : RowTables, target : RowTables,
                   out : {NoComparison}]
    /\ UrlIdle /\ ToolIdle /\ InitIdle /\ SqlIdle /\ CmdIdle /\ RetryIdle /\ WaitIdle
    /\ LagIdle /\ TempIdle

\* checksum.rs 114-142 and 19-24
ChecksumCompare ==
    /\ ~fncall.out.done
    /\ LET r == compare_tables([source |-> table_as_hashed(fncall.source),
                                target |-> table_as_hashed(fncall.target)])
       IN  fncall' = [fncall EXCEPT !.out =
               [done |-> TRUE, valid |-> is_valid(r.val), matches |-> r.val.matches]]
    /\ UNCHANGED callOthers

SpecChecksum == ChecksumInit /\ [][ChecksumCompare]_vars

\* C38: compare_tables reports a table valid only if source and target hold
\* the same rows, each as often as the other side has it, NULL told from the
\* empty string and the column boundaries kept; equal hashes imply equal
\* row counts.
C38_ValidOnlyIfSameRows ==
    fncall.out.done
        => /\ fncall.out.valid => fncall.source = fncall.target
           /\ fncall.out.matches => Len(fncall.source) = Len(fncall.target)

\* C38 the other way round: tables with the same rows are reported valid.
C38_SameRowsAreValid ==
    (fncall.out.done /\ fncall.source = fncall.target) => fncall.out.valid

\* a NULL on one side and an empty string on the other: reported valid
C38_NullTakenForEmptyString ==
    /\ fncall.out.done
    /\ fncall.out.valid
    /\ fncall.source = << <<Some(<<"a">>), None>> >>
    /\ fncall.target = << <<Some(<<"a">>), Some(<<>>)>> >>

\* equal hashes of one row and of two rows
C38_EqualHashesOtherRowCount ==
    /\ fncall.out.done
    /\ fncall.out.matches
    /\ Len(fncall.source) = 1
    /\ Len(fncall.target) = 2

-----------------------------------------------------------------------------
(* A running init and the startup sweep of another process (SpecSweep)     *)
(* init.rs 94-98 creates the managed directory, init.rs 321-342 creates    *)
(* the dump files in it, init.rs 368-373 removes it; meanwhile another     *)
(* process of the program starts and sweeps (main.rs 176-181).  The age of *)
(* a directory is the time since an entry was last created in it.          *)

\* temp.running: the directories whose init phase has not ended
SweepInit ==
    /\ temp = [fs |-> [e \in TempEntries |-> Absent], result |-> NoTempResult,
               log |-> {}, dispatched |-> FALSE, running |-> {}]
    /\ UrlIdle /\ ToolIdle /\ InitIdle /\ SqlIdle /\ CmdIdle /\ RetryIdle /\ WaitIdle
    /\ LagIdle /\ CallIdle

\* init.rs 94-98: an init phase starts and makes its directory
SweepInitStarts ==
    /\ \E dir_name \in CreatedNames, fails \in BOOLEAN :
          LET made == create_managed_temp_dir(temp.fs, dir_name, fails)
          IN  /\ [dir |-> TempRoot, name |-> dir_name] \notin temp.running
              /\ ~temp.fs[[dir |-> TempRoot, name |-> dir_name]].present
              /\ temp' = [temp EXCEPT
                    !.fs = made.fs, !.result = made.result, !.log = {},
                    !.running = IF made.result.ok
                                THEN @ \cup {Unwrap(made.result.path)} ELSE @]
    /\ UNCHANGED tempOthers

\* init.rs 321-342: the phase starts the dump of a next database, which
\* creates a file or a directory in its directory
SweepInitWrites ==
    /\ \E e \in temp.running :
          /\ temp.fs[e].present
          /\ temp' = [temp EXCEPT !.fs[e] = [present |-> TRUE, age |-> 0],
                                  !.result = NoTempResult, !.log = {}]
    /\ UNCHANGED tempOthers

\* init.rs 368-373: the phase removes its directory and ends; an error
\* before that ends it with the directory left
SweepInitEnds ==
    /\ \E e \in temp.running, fails \in BOOLEAN, returns_early \in BOOLEAN :
          LET removed == remove_managed_temp_dir(
                             temp.fs, [dir |-> e.dir, name |-> Some(e.name)], fails)
          IN  temp' = [temp EXCEPT
                  !.fs = IF returns_early THEN @ ELSE removed.fs,
                  !.result = IF returns_early THEN NoTempResult ELSE removed.result,
                  !.log = {},
                  !.running = @ \ {e}]
    /\ UNCHANGED tempOthers

SweepNext ==
    \/ SweepInitStarts
    \/ SweepInitWrites
    \/ SweepInitEnds
    \/ TempAge
    \/ TempStartup

SpecSweep == SweepInit /\ [][SweepNext]_vars

\* a sweep removes only directories whose phase has ended
SweepSparesRunning ==
    temp'.result.op = "sweep" => Deleted \cap temp.running = {}

\* C39: the startup sweep of a process never removes the managed directory
\* of an init phase that is still running in another process, however long
\* the phase runs and however the two interleave.
C39_SweepSparesRunningInit == [][SweepSparesRunning]_vars

\* C39 for a phase that created an entry in its directory within the last
\* 24 hours: its directory is not swept.
C39_SweepSparesFreshDirectories ==
    [][temp'.result.op = "sweep"
          => \A e \in Deleted : temp.fs[e].age > StaleAfterSecs]_vars

\* a phase is running and a sweep has removed its directory
C39_RunningInitLostItsDirectory ==
    /\ temp.result.op = "sweep"
    /\ \E e \in temp.running : ~temp.fs[e].present

\* ---------------------------------------------------------------------------
\* wait_for_sync against a subscription that changes while it is polled
\* (SpecWaitLive): the subscription reaches state r at one instant, or never,
\* and stays in r; every query returns, and reads the state at one instant
\* between its start and its return.

\* the state of a subscription that is not ready yet
StatesBefore == {"i", "d"}

\* latest instant at which a subscription becomes ready
MaxReadyAt == 7

ReadyInstants == {None} \cup {Some(t) : t \in 0..MaxReadyAt}

\* srsubstate at an instant
state_at(w, instant) ==
    IF IsSome(w.ready_at) /\ Unwrap(w.ready_at) <= instant THEN "r" ELSE w.before

WaitLiveInit ==
    /\ wait \in {WaitCall(t) @@ [ready_at |-> r, before |-> b, read_at |-> 0]
                    : t \in 0..MaxTimeout, r \in ReadyInstants, b \in StatesBefore}
    /\ UrlIdle /\ ToolIdle /\ InitIdle /\ SqlIdle /\ CmdIdle /\ RetryIdle /\ LagIdle
    /\ TempIdle /\ CallIdle

\* lines 141-198: one pass of the loop; the query takes its time and brings
\* back the state the subscription had when the server read it, or fails
WaitLivePoll ==
    /\ wait.pc = "poll"
    /\ \E took \in QueryTimes, failed \in BOOLEAN :
          \E read \in wait.clock..(wait.clock + took) :
             wait' = [polled(wait, wait.clock + took,
                             IF failed THEN QueryFailed ELSE state_at(wait, read))
                        EXCEPT !.read_at = read]
    /\ UNCHANGED waitOthers

WaitLiveNext ==
    \/ WaitLivePoll
    \/ WaitSleep

\* every query returns and every sleep ends
SpecWaitLive ==
    /\ WaitLiveInit
    /\ [][WaitLiveNext]_vars
    /\ WF_vars(WaitLivePoll)
    /\ WF_vars(WaitSleep)

TimeoutError ==
    /\ WaitDone
    /\ ~Unwrap(wait.result).ok
    /\ Unwrap(wait.result).err.kind = "timeout"

ReadyInTime == IsSome(wait.ready_at) /\ Unwrap(wait.ready_at) <= wait.timeout

\* C40: when every poll query returns, wait_for_sync terminates; and when the
\* subscription reaches state r no later than the timeout and stays in r, the
\* call does not return the timeout error, wherever the polls fall.
C40_WaitForSyncLiveness ==
    /\ <>WaitDone
    /\ [](ReadyInTime => ~TimeoutError)

\* C40, termination: when every poll query returns and every sleep ends, the
\* call returns.
C40_WaitTerminates == <>WaitDone

\* C40, success: the call returns the timeout error only when its last query
\* read the state before the subscription was ready; a query that reads the
\* state at or after that instant and does not fail ends the call with success.
C40_ReadAfterReadySucceeds ==
    /\ TimeoutError => (~IsSome(wait.ready_at) \/ wait.read_at < Unwrap(wait.ready_at))
    /\ (WaitDone /\ wait.log # <<>> /\ IsSome(wait.ready_at)
            /\ Unwrap(wait.ready_at) <= wait.read_at
            /\ (Unwrap(wait.result).ok \/ Unwrap(wait.result).err.kind # "query"))
          => Unwrap(wait.result).ok

\* the subscription was ready by the deadline, the query that was under way
\* read the state before that and returned after the deadline
C40_TimeoutThoughReadyInTime ==
    /\ TimeoutError
    /\ ReadyInTime
    /\ wait.read_at < Unwrap(wait.ready_at)
    /\ wait.clock > wait.timeout

=============================================================================
